---- MODULE Spec2Model ----
(***************************************************************************)
(* Model of the dynamic threat feed worker: the downstream request wrapper *)
(* (CloudflareAPIService.makeRequest), the chunked key/value store         *)
(* (StorageService), the Gateway List publisher (CloudflareAPIService),    *)
(* the collector (ThreatCollector) and the cycle (FeedManager).            *)
(***************************************************************************)
EXTENDS Integers, Sequences, FiniteSets, TLC

\* ------------------------------------------------------------------------
\* Program constants
\* ------------------------------------------------------------------------

\* cloudflareAPI.ts:397  const maxRetries = 3
maxRetries == 3

\* cloudflareAPI.ts:398  const baseDelay = 2000
baseDelay == 2000

\* storageService.ts:355  const maxChunkSize = 20 * 1024 * 1024, scaled to
\* a number of tokens of the serialized text
maxChunkSize == 5

\* cloudflareAPI.ts:121 and :222  const maxItemsPerList = 4500, scaled
maxItemsPerList == 2

\* cloudflareAPI.ts:151 and :267  const batchSize = 1000, scaled
batchSize == 1

\* ------------------------------------------------------------------------
\* Bounds of the model
\* ------------------------------------------------------------------------

\* The downstream system hands out list ids 1..MaxListIds.
MaxListIds == 4

\* The indicator values that sources report and callers store.
AllValues == <<"1.1.1.1", "8.8.8.8", "evil.example", "bad.example", "9.9.9.9", "worse.example">>

\* How many of them are in use.
NumValues == 3

\* The clock runs from 0 to MaxTime.
MaxTime == 2

\* The number of update cycles a behaviour runs.
MaxCycles == 2

VARIABLES
    rq_pc,        \* makeRequest: "idle" | "fetch" | "wait" | "returned" | "thrown"
    rq_attempt,   \* makeRequest: loop variable attempt
    rq_delay,     \* makeRequest: delay of the pending setTimeout
    rq_log,       \* makeRequest: fetches issued and waits elapsed, in order
    rq_value,     \* makeRequest: body returned by response.json()
    kv,           \* env.THREAT_DATA: the backing key/value namespace
    now,          \* the clock read by new Date() / Date.now()
    st_last,      \* the last StorageService call: its name, argument, result
    gw,           \* the downstream Gateway Lists: id -> name and items
    gw_next,      \* the id the downstream system gives to the next list
    pub,          \* updateGatewayListSnapshot: its locals and its position
    cy            \* updateThreatFeed: its locals, its position, cycles run

rqVars == <<rq_pc, rq_attempt, rq_delay, rq_log, rq_value>>

stVars == <<kv, now, st_last>>

pubVars == <<gw, gw_next, pub>>

vars == <<rq_pc, rq_attempt, rq_delay, rq_log, rq_value, kv, now, st_last, gw, gw_next, pub, cy>>

\* ------------------------------------------------------------------------
\* Downstream responses
\* ------------------------------------------------------------------------

\* A rejected fetch() (network failure) is written as status 0.
NetworkFailure == [status |-> 0, body |-> "none"]

\* The responses a downstream request can receive: 2xx with a JSON body
\* that says success:true or success:false, 404, 429, 500, and a network
\* failure.
Responses ==
    { [status |-> 200, body |-> "success"],
      [status |-> 200, body |-> "failure"],
      [status |-> 404, body |-> "none"],
      [status |-> 429, body |-> "none"],
      [status |-> 500, body |-> "none"],
      NetworkFailure }

\* Response.ok
ResponseOk(r) == r.status >= 200 /\ r.status <= 299

RECURSIVE Pow2(_)
Pow2(n) == IF n = 0 THEN 1 ELSE 2 * Pow2(n - 1)

\* Scores are counted in units of 1/ScoreScale, so that the halving done by
\* mergeIndicators is exact: a score is halved at most once in a cycle.
ScoreScale == Pow2(MaxCycles)

\* ------------------------------------------------------------------------
\* makeRequest (cloudflareAPI.ts:396-448)
\* ------------------------------------------------------------------------

BackoffDelay_NoDoubling(attempt) == baseDelay

\* const delay = baseDelay * Math.pow(2, attempt - 1)
BackoffDelay(attempt) == baseDelay * Pow2(attempt - 1)

RateLimitRetry_Always(r, attempt) == r.status = 429 /\ attempt <= maxRetries

\* if (response.status === 429) { ... if (attempt < maxRetries) { wait; continue } }
RateLimitRetry(r, attempt) == r.status = 429 /\ attempt < maxRetries

\* A catch block that waits and goes round the loop on the last attempt
\* too.
CatchBlock_NeverRethrows(attempt) ==
    [kind |-> "wait", delay |-> BackoffDelay(attempt), value |-> "none"]

\* The catch block of the loop body: rethrow on the last attempt, otherwise
\* wait and go round the loop again.
CatchBlock(attempt) ==
    IF attempt = maxRetries
    THEN [kind |-> "throw", delay |-> 0, value |-> "none"]
    ELSE [kind |-> "wait", delay |-> BackoffDelay(attempt), value |-> "none"]

\* One iteration of the for loop, given the response of its fetch.
AttemptOutcome(r, attempt) ==
    IF r = NetworkFailure THEN CatchBlock(attempt)
    ELSE IF RateLimitRetry(r, attempt)
         THEN [kind |-> "wait", delay |-> BackoffDelay(attempt), value |-> "none"]
    ELSE IF ~ResponseOk(r) THEN CatchBlock(attempt)
    ELSE [kind |-> "return", delay |-> 0, value |-> r.body]

\* The whole call on a given sequence of responses (one per attempt):
\* what the call does, how many fetches it issued and the waits it made.
RECURSIVE makeRequestFrom(_, _, _)
makeRequestFrom(rs, attempt, waits) ==
    IF attempt > maxRetries
    THEN [kind |-> "return", value |-> "undefined", attempts |-> attempt - 1, waits |-> waits]
    ELSE LET o == AttemptOutcome(rs[attempt], attempt)
         IN  IF o.kind = "wait"
             THEN makeRequestFrom(rs, attempt + 1, Append(waits, o.delay))
             ELSE [kind |-> o.kind, value |-> o.value, attempts |-> attempt, waits |-> waits]

makeRequest(rs) == makeRequestFrom(rs, 1, <<>>)

\* --- the same loop, one step at a time ---

makeRequestStart ==
    /\ rq_pc \in {"idle", "returned", "thrown"}
    /\ rq_pc' = "fetch"
    /\ rq_attempt' = 1
    /\ rq_delay' = 0
    /\ rq_log' = <<>>
    /\ rq_value' = "none"
    /\ UNCHANGED <<stVars, pubVars, cy>>

makeRequestFetch ==
    /\ rq_pc = "fetch"
    /\ rq_attempt <= maxRetries
    /\ \E r \in Responses :
         LET o == AttemptOutcome(r, rq_attempt)
         IN  /\ rq_log' = Append(rq_log, [ev |-> "fetch", status |-> r.status, body |-> r.body, ms |-> 0])
             /\ rq_pc' = CASE o.kind = "wait" -> "wait"
                           [] o.kind = "throw" -> "thrown"
                           [] OTHER -> "returned"
             /\ rq_delay' = o.delay
             /\ rq_value' = o.value
             /\ UNCHANGED rq_attempt
    /\ UNCHANGED <<stVars, pubVars, cy>>

\* await new Promise(resolve => setTimeout(resolve, delay)), then the next
\* iteration of the loop
makeRequestWait ==
    /\ rq_pc = "wait"
    /\ rq_log' = Append(rq_log, [ev |-> "wait", status |-> 0, body |-> "none", ms |-> rq_delay])
    /\ rq_attempt' = rq_attempt + 1
    /\ rq_pc' = IF rq_attempt + 1 > maxRetries THEN "returned" ELSE "fetch"
    /\ rq_value' = IF rq_attempt + 1 > maxRetries THEN "undefined" ELSE rq_value
    /\ rq_delay' = 0
    /\ UNCHANGED <<stVars, pubVars, cy>>

InitRq ==
    /\ rq_pc = "idle"
    /\ rq_attempt = 0
    /\ rq_delay = 0
    /\ rq_log = <<>>
    /\ rq_value = "none"

\* ------------------------------------------------------------------------
\* Indicators and indicator maps (Map<string, ThreatIndicator>)
\* ------------------------------------------------------------------------

\* interface ThreatIndicator
ThreatIndicator(value, type, score, sources, first_seen, last_seen, expires_at) ==
    [value |-> value, type |-> type, score |-> score, sources |-> sources,
     first_seen |-> first_seen, last_seen |-> last_seen, expires_at |-> expires_at]

\* A Map is the sequence of its entries in insertion order, keys distinct.
MapKeys(m) == { m[i].key : i \in 1..Len(m) }

MapHas(m, key) == key \in MapKeys(m)

MapGet(m, key) == m[CHOOSE i \in 1..Len(m) : m[i].key = key].val

\* Map.set: replaces the value in place, or appends a new entry
MapSet(m, key, val) ==
    IF MapHas(m, key)
    THEN [i \in 1..Len(m) |-> IF m[i].key = key THEN [key |-> key, val |-> val] ELSE m[i]]
    ELSE Append(m, [key |-> key, val |-> val])

\* Array.from(map.values())
MapValues(m) == [i \in 1..Len(m) |-> m[i].val]

\* The mapping a Map stands for, whatever its insertion order.
MapAsSet(m) == { m[i] : i \in 1..Len(m) }

\* ------------------------------------------------------------------------
\* The backing key/value namespace (env.THREAT_DATA)
\* ------------------------------------------------------------------------

\* KV_KEYS.ALL_INDICATORS
K_ALL_INDICATORS == <<"indicators:all">>

\* KV_KEYS.INDICATORS_INDEX
K_INDICATORS_INDEX == <<"indicators:index">>

\* `${KV_KEYS.INDICATORS_CHUNKS}${index}`
K_INDICATORS_CHUNKS(index) == <<"indicators:chunk:", index>>

\* `${KV_KEYS.INDICATORS_PREFIX}${value}`
K_INDICATORS_PREFIX(value) == <<"indicators:", value>>

K_FEED_METADATA == <<"feed:metadata">>

K_LAST_UPDATE == <<"feed:last_update">>

K_UPDATE_STATS == <<"feed:update_stats">>

K_SOURCES_CONFIG == <<"config:sources">>

\* THREAT_DATA.put(key, value)
KVPut(store, key, value) ==
    [k \in (DOMAIN store) \cup {key} |-> IF k = key THEN value ELSE store[k]]

\* THREAT_DATA.delete(key)
KVDelete(store, key) == [k \in (DOMAIN store) \ {key} |-> store[k]]

\* THREAT_DATA.get(key) !== null
KVHas(store, key) == key \in DOMAIN store

\* A write of storeIndicators/clearAllData: a put or a delete of one key.
PutOp(key, value) == [op |-> "put", key |-> key, value |-> value]

DeleteOp(key) == [op |-> "delete", key |-> key, value |-> <<>>]

KVApply(store, w) ==
    IF w.op = "put" THEN KVPut(store, w.key, w.value) ELSE KVDelete(store, w.key)

RECURSIVE KVApplyAll(_, _)
KVApplyAll(store, ws) ==
    IF ws = <<>> THEN store ELSE KVApplyAll(KVApply(store, Head(ws)), Tail(ws))

\* ------------------------------------------------------------------------
\* JSON.stringify(Object.fromEntries(map)) and JSON.parse
\* ------------------------------------------------------------------------
\* The text is a sequence of tokens: "{", then for each entry the key and
\* the two halves of its object, entries separated by ",", then "}".  Its
\* length in tokens stands for fullData.length.

EntryTokens(e) ==
    << <<"key", e.key>>,
       <<"head", [value |-> e.val.value, type |-> e.val.type,
                  score |-> e.val.score, sources |-> e.val.sources]>>,
       <<"tail", [first_seen |-> e.val.first_seen, last_seen |-> e.val.last_seen,
                  expires_at |-> e.val.expires_at]>> >>

RECURSIVE EntriesTokens(_, _)
EntriesTokens(m, i) ==
    IF i > Len(m) THEN <<>>
    ELSE (IF i > 1 THEN << <<",", 0>> >> ELSE <<>>) \o EntryTokens(m[i]) \o EntriesTokens(m, i + 1)

\* JSON.stringify(Object.fromEntries(indicators))
Stringify(m) == << <<"{", 0>> >> \o EntriesTokens(m, 1) \o << <<"}", 0>> >>

Tag(toks, i) == IF i >= 1 /\ i <= Len(toks) THEN toks[i][1] ELSE "eof"

\* Parses the entries from token i on; acc holds the entries read so far.
\* Yields [ok |-> FALSE] on a syntax error (JSON.parse throws).
RECURSIVE ParseEntries(_, _, _)
ParseEntries(toks, i, acc) ==
    IF Tag(toks, i) = "key" /\ Tag(toks, i + 1) = "head" /\ Tag(toks, i + 2) = "tail"
    THEN LET h == toks[i + 1][2]
             t == toks[i + 2][2]
             e == [key |-> toks[i][2],
                   val |-> ThreatIndicator(h.value, h.type, h.score, h.sources,
                                           t.first_seen, t.last_seen, t.expires_at)]
             acc2 == MapSet(acc, e.key, e.val)
         IN  IF Tag(toks, i + 3) = "}" /\ i + 3 = Len(toks)
             THEN [ok |-> TRUE, map |-> acc2]
             ELSE IF Tag(toks, i + 3) = ","
                  THEN ParseEntries(toks, i + 4, acc2)
                  ELSE [ok |-> FALSE, map |-> <<>>]
    ELSE [ok |-> FALSE, map |-> <<>>]

\* new Map(Object.entries(JSON.parse(text)))
Parse(toks) ==
    IF Tag(toks, 1) # "{" THEN [ok |-> FALSE, map |-> <<>>]
    ELSE IF Len(toks) = 2 /\ Tag(toks, 2) = "}" THEN [ok |-> TRUE, map |-> <<>>]
    ELSE ParseEntries(toks, 2, <<>>)

\* fullData.slice(i, i + maxChunkSize)
Slice(text, from, to) == SubSeq(text, from + 1, IF to > Len(text) THEN Len(text) ELSE to)

\* ------------------------------------------------------------------------
\* StorageService (storageService.ts:314-715)
\* ------------------------------------------------------------------------

\* for (let i = 0; i < fullData.length; i += maxChunkSize) chunks.push(...)
NumChunks(fullData) == (Len(fullData) + maxChunkSize - 1) \div maxChunkSize

Chunk(fullData, index) == Slice(fullData, index * maxChunkSize, (index + 1) * maxChunkSize)

\* if (fullData.length <= maxChunkSize)
FitsSingleEntry(fullData) == Len(fullData) <= maxChunkSize

SingleEntryWrites_KeepIndex(fullData) ==
    << PutOp(K_ALL_INDICATORS, fullData) >>

\* The writes of the single-entry branch, in the order they are awaited.
SingleEntryWrites(fullData) ==
    << PutOp(K_ALL_INDICATORS, fullData),
       DeleteOp(K_INDICATORS_INDEX) >>

\* The writes the chunked branch hands to Promise.all: one put per chunk
\* and the put of the chunk index (its created_at, which nothing reads, is
\* left out).
ChunkedParallelWrites(fullData) ==
    [i \in 1..(NumChunks(fullData) + 1) |->
        IF i <= NumChunks(fullData)
        THEN PutOp(K_INDICATORS_CHUNKS(i - 1), Chunk(fullData, i - 1))
        ELSE PutOp(K_INDICATORS_INDEX,
                   [total_chunks |-> NumChunks(fullData),
                    total_size |-> Len(fullData)])]

\* The writes of the chunked branch: the parallel puts, then the delete of
\* the single entry.
ChunkedWrites(fullData) ==
    ChunkedParallelWrites(fullData) \o << DeleteOp(K_ALL_INDICATORS) >>

\* All writes of storeIndicators(indicators).
StoreIndicatorsWrites(indicators) ==
    LET fullData == Stringify(indicators)
    IN  IF FitsSingleEntry(fullData)
        THEN SingleEntryWrites(fullData)
        ELSE ChunkedWrites(fullData)

\* chunks.join(''): a chunk that get() returned null for joins as ''
RECURSIVE JoinChunks(_, _, _)
JoinChunks(store, index, total) ==
    IF index >= total THEN <<>>
    ELSE (IF KVHas(store, K_INDICATORS_CHUNKS(index))
          THEN store[K_INDICATORS_CHUNKS(index)] ELSE <<>>)
         \o JoinChunks(store, index + 1, total)

\* getAllIndicators(): the Map it returns, and whether it raised.  Both
\* JSON.parse calls are inside try/catch blocks that return an empty Map.
getAllIndicators(store) ==
    IF KVHas(store, K_INDICATORS_INDEX)
    THEN LET chunkIndex == store[K_INDICATORS_INDEX]
             fullData == JoinChunks(store, 0, chunkIndex.total_chunks)
             parsed == Parse(fullData)
         IN  [raised |-> FALSE, map |-> IF parsed.ok THEN parsed.map ELSE <<>>]
    ELSE IF ~KVHas(store, K_ALL_INDICATORS)
         THEN [raised |-> FALSE, map |-> <<>>]
         ELSE LET parsed == Parse(store[K_ALL_INDICATORS])
              IN  [raised |-> FALSE, map |-> IF parsed.ok THEN parsed.map ELSE <<>>]

\* new Date(indicator.expires_at) <= now
Expired(ind, at) == ind.expires_at <= at

\* A getActiveIndicators that returns the expired indicators as well.
getActiveIndicators_KeepsExpired(store, at) == getAllIndicators(store).map

\* getActiveIndicators()
getActiveIndicators(store, at) ==
    SelectSeq(getAllIndicators(store).map, LAMBDA e : e.val.expires_at > at)

\* cleanupExpiredIndicators(): the keys it deletes
ExpiredDeletes(store, at) ==
    LET expired == SelectSeq(getAllIndicators(store).map, LAMBDA e : Expired(e.val, at))
    IN  [i \in 1..Len(expired) |-> DeleteOp(K_INDICATORS_PREFIX(expired[i].key))]

\* The writes of ws whose position is not in rejected, from position i on.
RECURSIVE WritesExcept(_, _, _)
WritesExcept(ws, rejected, i) ==
    IF i > Len(ws) THEN <<>>
    ELSE (IF i \in rejected THEN <<>> ELSE << ws[i] >>) \o WritesExcept(ws, rejected, i + 1)

\* --- inputs of the store operations ---

\* The indicator stored for the i-th value: reported by one source of
\* weight 8, with an expiry time that depends on i (the first has expired
\* at time 0, the others expire at times 1..MaxTime).
SampleIndicator(i) ==
    ThreatIndicator(AllValues[i], "ip", 8 * ScoreScale, <<"S1">>, 0, 0,
                    IF i = 1 THEN 0 ELSE ((i - 2) % MaxTime) + 1)

IndicatorValues == { AllValues[i] : i \in 1..NumValues }

\* Every Map holding some of the sample indicators i..n, in increasing
\* order.
RECURSIVE SampleMapsFrom(_, _)
SampleMapsFrom(i, n) ==
    IF i > n THEN { <<>> }
    ELSE LET rest == SampleMapsFrom(i + 1, n)
         IN  rest \cup
             { << [key |-> AllValues[i], val |-> SampleIndicator(i)] >> \o m : m \in rest }

SampleMaps == SampleMapsFrom(1, NumValues)

\* --- the operations ---

\* storeIndicators(indicators), every write accepted
storeIndicators(indicators) ==
    /\ kv' = KVApplyAll(kv, StoreIndicatorsWrites(indicators))
    /\ st_last' = [op |-> "storeIndicators", ok |-> TRUE, arg |-> indicators,
                   before |-> <<>>, at |-> 0, ret |-> 0]
    /\ UNCHANGED now

\* The stores storeIndicators(indicators) may leave when the backing store
\* rejects a write of the single-entry branch: the writes awaited before it
\* have landed.
SingleFailStores(store, indicators) ==
    { KVApplyAll(store, SubSeq(SingleEntryWrites(Stringify(indicators)), 1, n)) :
        n \in 0..(Len(SingleEntryWrites(Stringify(indicators))) - 1) }

\* The stores storeIndicators(indicators) may leave when the backing store
\* rejects writes of the chunked branch: either some of the parallel puts
\* are rejected (the others land) and the delete is not reached, or all
\* puts land and the delete is rejected.
ChunkedFailStores(store, indicators) ==
    LET ws == ChunkedParallelWrites(Stringify(indicators))
    IN  { KVApplyAll(store, WritesExcept(ws, rejected, 1)) :
            rejected \in (SUBSET (1..Len(ws))) \ {{}} }
        \cup { KVApplyAll(store, ws) }

\* The stores a storeIndicators(indicators) that raises may leave.
FailedPersistStores(store, indicators) ==
    IF FitsSingleEntry(Stringify(indicators))
    THEN SingleFailStores(store, indicators)
    ELSE ChunkedFailStores(store, indicators)

\* storeIndicators(indicators) when the backing store rejects a write of
\* the single-entry branch.
storeIndicatorsSingleFails(indicators) ==
    /\ FitsSingleEntry(Stringify(indicators))
    /\ kv' \in SingleFailStores(kv, indicators)
    /\ st_last' = [op |-> "storeIndicators", ok |-> FALSE, arg |-> <<>>,
                   before |-> <<>>, at |-> 0, ret |-> 0]
    /\ UNCHANGED now

\* storeIndicators(indicators) when the backing store rejects writes of the
\* chunked branch: either some of the parallel puts are rejected (the
\* others land, in any order) and the delete is not reached, or all puts
\* land and the delete is rejected.
storeIndicatorsChunkedFails(indicators) ==
    /\ ~FitsSingleEntry(Stringify(indicators))
    /\ kv' \in ChunkedFailStores(kv, indicators)
    /\ st_last' = [op |-> "storeIndicators", ok |-> FALSE, arg |-> <<>>,
                   before |-> <<>>, at |-> 0, ret |-> 0]
    /\ UNCHANGED now


\* cleanupExpiredIndicators(): counts the expired entries of the stored
\* Map and deletes the point key of each; returns the count.
cleanupExpiredIndicators ==
    /\ kv' = KVApplyAll(kv, ExpiredDeletes(kv, now))
    /\ st_last' = [op |-> "cleanupExpiredIndicators", ok |-> TRUE, arg |-> <<>>,
                   before |-> getAllIndicators(kv).map, at |-> now,
                   ret |-> Len(ExpiredDeletes(kv, now))]
    /\ UNCHANGED now

\* updateIndicator(value, indicator)
updateIndicator(value, indicator) ==
    /\ kv' = KVPut(kv, K_INDICATORS_PREFIX(value),
                   Tail(EntryTokens([key |-> value, val |-> indicator])))
    /\ st_last' = [op |-> "updateIndicator", ok |-> TRUE, arg |-> <<>>,
                   before |-> <<>>, at |-> 0, ret |-> 0]
    /\ UNCHANGED now

\* deleteIndicator(value)
deleteIndicator(value) ==
    /\ kv' = KVDelete(kv, K_INDICATORS_PREFIX(value))
    /\ st_last' = [op |-> "deleteIndicator", ok |-> TRUE, arg |-> <<>>,
                   before |-> <<>>, at |-> 0, ret |-> 0]
    /\ UNCHANGED now

\* clearAllIndicatorData(): its deletes
ClearIndicatorDataWrites(store) ==
    << DeleteOp(K_ALL_INDICATORS) >> \o
    (IF KVHas(store, K_INDICATORS_INDEX)
     THEN [i \in 1..store[K_INDICATORS_INDEX].total_chunks |-> DeleteOp(K_INDICATORS_CHUNKS(i - 1))]
          \o << DeleteOp(K_INDICATORS_INDEX) >>
     ELSE <<>>)

\* clearAllData(): its deletes
ClearAllDataWrites(store) ==
    ClearIndicatorDataWrites(store) \o
    << DeleteOp(K_FEED_METADATA), DeleteOp(K_LAST_UPDATE),
       DeleteOp(K_UPDATE_STATS), DeleteOp(K_SOURCES_CONFIG) >>

\* clearAllData()
clearAllData ==
    /\ kv' = KVApplyAll(kv, ClearAllDataWrites(kv))
    /\ st_last' = [op |-> "clearAllData", ok |-> TRUE, arg |-> <<>>,
                   before |-> <<>>, at |-> 0, ret |-> 0]
    /\ UNCHANGED now

\* Time passes.
Tick ==
    /\ now < MaxTime
    /\ now' = now + 1
    /\ UNCHANGED <<kv, st_last>>

InitStore ==
    /\ kv = <<>>
    /\ now = 0
    /\ st_last = [op |-> "none", ok |-> TRUE, arg |-> <<>>,
                  before |-> <<>>, at |-> 0, ret |-> 0]

\* ------------------------------------------------------------------------
\* The downstream Gateway Lists API
\* ------------------------------------------------------------------------

\* env.FEED_NAME ("custom-threat-feed" in the documented configuration)
FEED_NAME == <<"custom-threat-feed", 0, 0, 0>>

\* const feedNamePrefix = 'DynamicThreatFeed-'
feedNamePrefix == "DynamicThreatFeed-"

\* new Date().toISOString().slice(0, 10): one unit of the clock is a day
DateStamp(t) == t

\* `DynamicThreatFeed-${timestamp}-Part${listNumber}of${totalLists}`
ListName(timestamp, listNumber, totalLists) ==
    <<feedNamePrefix, timestamp, listNumber, totalLists>>

\* list.name.startsWith(feedNamePrefix)
StartsWithPrefix(name) == name[1] = feedNamePrefix

\* 'gateway_lists:metadata'
K_GATEWAY_LISTS == <<"gateway_lists:metadata">>

\* The item made of an indicator: its value and a comment built from its
\* type, score, sources and last_seen.
Item(indicator) ==
    [value |-> indicator.value,
     comment |-> <<indicator.type, indicator.score, indicator.sources, indicator.last_seen>>]

Items(indicators) == { Item(indicators[j]) : j \in 1..Len(indicators) }

\* What a caller of makeRequest sees: the call raised ("error"), or it
\* returned a body with success:true ("ok") or success:false ("rejected").
OutcomeOf(res) ==
    IF res.kind = "throw" THEN "error"
    ELSE IF res.value = "success" THEN "ok"
    ELSE "rejected"

\* The outcomes of makeRequest over every sequence of responses.
RequestOutcomes == { OutcomeOf(makeRequest(rs)) : rs \in [1..maxRetries -> Responses] }

\* The elements of a set of numbers in increasing order.
RECURSIVE SortedSeq(_)
SortedSeq(S) ==
    IF S = {} THEN <<>>
    ELSE LET m == CHOOSE x \in S : \A y \in S : x <= y
         IN  <<m>> \o SortedSeq(S \ {m})

\* The ids of the lists the list-all request returns whose name has the
\* reserved prefix, in the order returned.
PrefixedLists(lists) == SortedSeq({ id \in DOMAIN lists : StartsWithPrefix(lists[id].name) })

\* data.result.find(l => l.name === listName): 0 stands for null
FindByName(lists, name) ==
    IF \E id \in DOMAIN lists : lists[id].name = name
    THEN CHOOSE id \in DOMAIN lists :
            /\ lists[id].name = name
            /\ \A other \in DOMAIN lists : lists[other].name = name => id <= other
    ELSE 0

GwCreate(lists, id, name) ==
    [x \in (DOMAIN lists) \cup {id} |-> IF x = id THEN [name |-> name, items |-> {}] ELSE lists[x]]

GwDelete(lists, id) == [x \in (DOMAIN lists) \ {id} |-> lists[x]]

GwClear(lists, id) == [lists EXCEPT ![id].items = {}]

GwAppend(lists, id, items) == [lists EXCEPT ![id].items = @ \cup items]

\* ------------------------------------------------------------------------
\* CloudflareAPIService: updateGatewayListSnapshot (cloudflareAPI.ts:109-332)
\* ------------------------------------------------------------------------

CeilDiv(n, d) == (n + d - 1) \div d

\* for (let i = 0; i < items.length; i += batchSize) batches.push(items.slice(i, i + batchSize))
NumBatches(items) == CeilDiv(Len(items), batchSize)

Batch(items, b) == Slice(items, b * batchSize, (b + 1) * batchSize)

\* A split that drops the short slice at the end.
SplitLists_DropsRemainder(indicators) ==
    [i \in 1..(Len(indicators) \div maxItemsPerList) |->
        Slice(indicators, (i - 1) * maxItemsPerList, i * maxItemsPerList)]

\* for (let i = 0; i < indicators.length; i += maxItemsPerList) lists.push(indicators.slice(i, i + maxItemsPerList))
SplitLists(indicators) ==
    [i \in 1..CeilDiv(Len(indicators), maxItemsPerList) |->
        Slice(indicators, (i - 1) * maxItemsPerList, i * maxItemsPerList)]

\* activeIndicators.length <= maxItemsPerList
UseSingleList(activeIndicators) == Len(activeIndicators) <= maxItemsPerList

\* What is kept of the publish before the one in hand when the caller runs
\* the publish again: nothing, until republish records it.
NoPrev ==
    [ran |-> FALSE, allOk |-> FALSE, at |-> 0, input |-> <<>>,
     activeIndicators |-> <<>>, view |-> {}, items |-> {}]

\* callerArray is the caller's array once the call has returned.  other is
\* the state of the publish of a second cycle that is suspended at an
\* await while this one runs (<<>> when there is none).
PubIdle ==
    [pc |-> "idle", mode |-> "none", listId |-> 0, input |-> <<>>, at |-> 0,
     activeIndicators |-> <<>>, lists |-> <<>>, i |-> 0, batchIndex |-> 0,
     gatewayList |-> 0, createdListIds |-> <<>>, oldLists |-> <<>>, k |-> 0,
     allOk |-> TRUE, partFailed |-> FALSE, success |-> FALSE, errors |-> 0,
     callerArray |-> <<>>, prev |-> NoPrev, inflight |-> 0, delay |-> 0,
     other |-> <<>>]

\* setTimeout(resolve, 500) between the batches of a list
batchDelay == 500

\* setTimeout(resolve, 500) after each deletion of the cleanup
deletionDelay == 500

\* setTimeout(resolve, 1000) after a list is populated
listDelay == 1000

\* if (i < lists.length - 1) await new Promise(resolve => setTimeout(resolve, 1000))
ListDelay(p) == IF p.i < Len(p.lists) - 1 THEN listDelay ELSE 0

\* The awaited request has settled and the setTimeout that follows it, of
\* ms milliseconds (0 when there is none), has been awaited.  inflight
\* counts the requests sent and not settled where the sending of a request
\* is a step of its own; delay is what was awaited since the last request
\* settled.
Settled(p, ms) ==
    [p EXCEPT !.inflight = IF @ > 0 THEN @ - 1 ELSE 0, !.delay = ms]

Returned(p, success, errors) ==
    [p EXCEPT !.pc = "done", !.success = success, !.errors = errors]

\* updateGatewayListSnapshot(listId, indicators) up to the call of
\* updateSingleList or createMultipleLists: filters the expired indicators
\* and picks the path; on the multi-list path the caller's array is
\* emptied (indicators.length = 0).
StartedPublish(listId, indicators, at) ==
    LET activeIndicators == SelectSeq(indicators, LAMBDA ind : ind.expires_at > at)
    IN  [PubIdle EXCEPT
            !.listId = listId,
            !.input = indicators,
            !.at = at,
            !.activeIndicators = activeIndicators,
            !.mode = IF UseSingleList(activeIndicators) THEN "single" ELSE "multi",
            !.pc = IF UseSingleList(activeIndicators) THEN "clear" ELSE "cleanup",
            !.lists = IF UseSingleList(activeIndicators) THEN <<>>
                      ELSE SplitLists(activeIndicators),
            !.callerArray = IF UseSingleList(activeIndicators) THEN indicators ELSE <<>>]

\* updateGatewayListSnapshot(listId, indicators): filters the expired
\* indicators and picks the single-list or the multi-list path.
updateGatewayListSnapshot(listId, indicators) ==
    /\ pub.pc \in {"idle", "done"}
    /\ pub' = StartedPublish(listId, indicators, now)
    /\ UNCHANGED <<gw, gw_next>>

\* The downstream state as a caller can compare it: for each name and item
\* set, the number of lists that have them.
View(lists) ==
    { <<lists[id].name, lists[id].items,
        Cardinality({ other \in DOMAIN lists : lists[other] = lists[id] })>> :
      id \in DOMAIN lists }

\* The same without the names.
ItemsView(lists) ==
    { <<lists[id].items,
        Cardinality({ other \in DOMAIN lists : lists[other].items = lists[id].items })>> :
      id \in DOMAIN lists }

\* The caller runs the publish a second time, with an array equal to the
\* first one or with the very array it passed before.
republish ==
    /\ pub.pc = "done"
    /\ ~pub.prev.ran
    /\ \E indicators \in {pub.input, pub.callerArray} :
         pub' = [StartedPublish(pub.listId, indicators, now) EXCEPT
                    !.prev = [ran |-> TRUE, allOk |-> pub.allOk, at |-> pub.at,
                              input |-> pub.input,
                              activeIndicators |-> pub.activeIndicators,
                              view |-> View(gw), items |-> ItemsView(gw)]]
    /\ UNCHANGED <<gw, gw_next>>

\* updateSingleList: await this.clearGatewayList(listId).  clearGatewayList
\* catches its own errors, so the batches follow whatever the outcome.
clearGatewayList ==
    /\ pub.pc = "clear"
    /\ \E o \in RequestOutcomes :
         /\ o = "ok" => pub.listId \in DOMAIN gw
         /\ gw' = IF o = "ok" THEN GwClear(gw, pub.listId) ELSE gw
         /\ LET p == Settled([pub EXCEPT !.allOk = @ /\ (o = "ok"), !.batchIndex = 0], 0)
            IN  pub' = IF NumBatches(pub.activeIndicators) = 0
                       THEN Returned(p, TRUE, 0)
                       ELSE [p EXCEPT !.pc = "append"]
    /\ UNCHANGED gw_next

\* updateSingleList: one PATCH append of the batch loop (and the 500 ms
\* delay after it when more batches follow).
appendBatchSingle ==
    /\ pub.pc = "append"
    /\ \E o \in RequestOutcomes :
         /\ o = "ok" => pub.listId \in DOMAIN gw
         /\ LET p == [pub EXCEPT !.allOk = @ /\ (o = "ok")]
            IN  IF o = "ok"
                THEN /\ gw' = GwAppend(gw, pub.listId,
                                       Items(Batch(pub.activeIndicators, pub.batchIndex)))
                     /\ pub' = IF pub.batchIndex + 1 = NumBatches(pub.activeIndicators)
                               THEN Returned(Settled(p, 0), TRUE, 0)
                               ELSE Settled([p EXCEPT !.batchIndex = @ + 1], batchDelay)
                ELSE /\ gw' = gw
                     /\ pub' = Returned(Settled(p, 0), FALSE, 1)
    /\ UNCHANGED gw_next

\* The loop over lists moves to the next list, or leaves the loop.
NextList(p) ==
    IF p.i + 1 >= Len(p.lists)
    THEN [p EXCEPT !.i = @ + 1, !.pc = "store_ids"]
    ELSE [p EXCEPT !.i = @ + 1, !.pc = "create"]

\* cleanupOldGatewayLists: the list-all request.  A failure is logged and
\* the cleanup is given up.
cleanupListAll ==
    /\ pub.pc = "cleanup"
    /\ \E o \in RequestOutcomes :
         LET p == Settled([pub EXCEPT !.allOk = @ /\ (o = "ok"), !.i = 0], 0)
         IN  pub' = IF o = "ok" /\ PrefixedLists(gw) # <<>>
                    THEN [p EXCEPT !.oldLists = PrefixedLists(gw), !.k = 1, !.pc = "delete"]
                    ELSE [p EXCEPT !.pc = "create"]
    /\ UNCHANGED <<gw, gw_next>>

\* A cleanup whose deletes are answered but delete nothing.
cleanupDelete_KeepsList ==
    /\ pub.pc = "delete"
    /\ \E o \in RequestOutcomes :
         /\ gw' = gw
         /\ LET p == Settled([pub EXCEPT !.allOk = @ /\ (o = "ok")], deletionDelay)
            IN  pub' = IF pub.k = Len(pub.oldLists)
                       THEN [p EXCEPT !.pc = "create"]
                       ELSE [p EXCEPT !.k = @ + 1]
    /\ UNCHANGED gw_next

\* cleanupOldGatewayLists: await this.deleteGatewayList(list.id), whose
\* result is ignored, then the 500 ms delay.
cleanupDelete ==
    /\ pub.pc = "delete"
    /\ \E o \in RequestOutcomes :
         /\ o = "ok" => pub.oldLists[pub.k] \in DOMAIN gw
         /\ gw' = IF o = "ok" THEN GwDelete(gw, pub.oldLists[pub.k]) ELSE gw
         /\ LET p == Settled([pub EXCEPT !.allOk = @ /\ (o = "ok")], deletionDelay)
            IN  pub' = IF pub.k = Len(pub.oldLists)
                       THEN [p EXCEPT !.pc = "create"]
                       ELSE [p EXCEPT !.k = @ + 1]
    /\ UNCHANGED gw_next

\* createMultipleLists: createGatewayList for lists[i].  An error is caught
\* by the try around the list and the loop goes on with the next list.
createList ==
    /\ pub.pc = "create"
    /\ \E o \in RequestOutcomes :
         /\ o = "ok" => gw_next <= MaxListIds
         /\ IF o = "ok"
            THEN /\ gw' = GwCreate(gw, gw_next,
                                   ListName(DateStamp(now), pub.i + 1, Len(pub.lists)))
                 /\ gw_next' = gw_next + 1
                 /\ pub' = Settled([pub EXCEPT !.gatewayList = gw_next, !.batchIndex = 0,
                                               !.pc = "populate"], 0)
            ELSE /\ UNCHANGED <<gw, gw_next>>
                 /\ pub' = Settled(NextList([pub EXCEPT !.allOk = FALSE, !.partFailed = TRUE]), 0)

\* A batch loop whose failure ends the loop over the lists as well.
appendBatchMulti_FailureEndsLoop ==
    /\ pub.pc = "populate"
    /\ \E o \in RequestOutcomes :
         /\ o = "ok" => pub.gatewayList \in DOMAIN gw
         /\ IF o = "ok"
            THEN /\ gw' = GwAppend(gw, pub.gatewayList,
                                   Items(Batch(pub.lists[pub.i + 1], pub.batchIndex)))
                 /\ pub' = IF pub.batchIndex + 1 = NumBatches(pub.lists[pub.i + 1])
                           THEN Settled(NextList([pub EXCEPT !.createdListIds = Append(@, pub.gatewayList)]),
                                        ListDelay(pub))
                           ELSE Settled([pub EXCEPT !.batchIndex = @ + 1], batchDelay)
            ELSE /\ gw' = gw
                 /\ pub' = Settled([pub EXCEPT !.allOk = FALSE, !.partFailed = TRUE, !.pc = "store_ids"], 0)
    /\ UNCHANGED gw_next

\* createMultipleLists: one PATCH append of the batch loop of lists[i]; after
\* the last batch the list id is pushed to createdListIds.
appendBatchMulti ==
    /\ pub.pc = "populate"
    /\ \E o \in RequestOutcomes :
         /\ o = "ok" => pub.gatewayList \in DOMAIN gw
         /\ IF o = "ok"
            THEN /\ gw' = GwAppend(gw, pub.gatewayList,
                                   Items(Batch(pub.lists[pub.i + 1], pub.batchIndex)))
                 /\ pub' = IF pub.batchIndex + 1 = NumBatches(pub.lists[pub.i + 1])
                           THEN Settled(NextList([pub EXCEPT !.createdListIds = Append(@, pub.gatewayList)]),
                                        ListDelay(pub))
                           ELSE Settled([pub EXCEPT !.batchIndex = @ + 1], batchDelay)
            ELSE /\ gw' = gw
                 /\ pub' = Settled(NextList([pub EXCEPT !.allOk = FALSE, !.partFailed = TRUE]), 0)
    /\ UNCHANGED gw_next

\* createMultipleLists: return { success: true, ..., errors: [] }
ReturnMultiSuccess(p) == Returned(p, TRUE, 0)

\* createMultipleLists: storeGatewayListIds(createdListIds), which catches
\* a rejected put, then the return.
storeGatewayListIds ==
    /\ pub.pc = "store_ids"
    /\ \/ kv' = KVPut(kv, K_GATEWAY_LISTS,
                      [ids |-> pub.createdListIds, count |-> Len(pub.createdListIds)])
       \/ kv' = kv
    /\ pub' = ReturnMultiSuccess(pub)
    /\ UNCHANGED <<gw, gw_next>>

\* ------------------------------------------------------------------------
\* FeedManager.initialize (part_000:164-193)
\* ------------------------------------------------------------------------

\* The fields of FeedMetadata the model keeps.
FeedMetadata(feed_id, last_updated, total_indicators) ==
    [feed_id |-> feed_id, last_updated |-> last_updated, total_indicators |-> total_indicators]

\* initialize(): validateCredentials, getOrCreateGatewayList and
\* storeFeedMetadata.  o1, o2, o3 are the outcomes of the credentials
\* request, of the list-all request and of the create request.
initializeFrom(store) ==
    \E o1 \in RequestOutcomes, o2 \in RequestOutcomes, o3 \in RequestOutcomes :
        LET list == IF o2 = "ok" THEN FindByName(gw, FEED_NAME) ELSE 0
        IN  IF o1 # "ok"
            THEN kv' = store /\ UNCHANGED <<gw, gw_next>>
            ELSE IF list # 0
            THEN /\ kv' = KVPut(store, K_FEED_METADATA, FeedMetadata(list, now, Cardinality(gw[list].items)))
                 /\ UNCHANGED <<gw, gw_next>>
            ELSE IF o3 = "ok"
            THEN /\ gw_next <= MaxListIds
                 /\ gw' = GwCreate(gw, gw_next, FEED_NAME)
                 /\ gw_next' = gw_next + 1
                 /\ kv' = KVPut(store, K_FEED_METADATA, FeedMetadata(gw_next, now, 0))
            ELSE kv' = store /\ UNCHANGED <<gw, gw_next>>

initialize == initializeFrom(kv)

\* resetFeed(): clearAllData(), then initialize()
resetFeed ==
    /\ initializeFrom(KVApplyAll(kv, ClearAllDataWrites(kv)))
    /\ st_last' = [op |-> "clearAllData", ok |-> TRUE, arg |-> <<>>,
                   before |-> <<>>, at |-> 0, ret |-> 0]
    /\ UNCHANGED <<now, pub, cy>>

\* ------------------------------------------------------------------------
\* Validators (threatCollector.ts:269-470)
\* ------------------------------------------------------------------------

\* The octets of the values that match IP_REGEX.
IPv4Octets ==
    [v \in {"1.1.1.1", "8.8.8.8", "9.9.9.9", "10.0.0.1", "172.16.5.5", "172.32.0.1",
            "192.168.1.1", "127.0.0.1", "169.254.1.1", "224.0.0.1"} |->
        CASE v = "1.1.1.1" -> <<1, 1, 1, 1>>
          [] v = "8.8.8.8" -> <<8, 8, 8, 8>>
          [] v = "9.9.9.9" -> <<9, 9, 9, 9>>
          [] v = "10.0.0.1" -> <<10, 0, 0, 1>>
          [] v = "172.16.5.5" -> <<172, 16, 5, 5>>
          [] v = "172.32.0.1" -> <<172, 32, 0, 1>>
          [] v = "192.168.1.1" -> <<192, 168, 1, 1>>
          [] v = "127.0.0.1" -> <<127, 0, 0, 1>>
          [] v = "169.254.1.1" -> <<169, 254, 1, 1>>
          [] OTHER -> <<224, 0, 0, 1>>]

\* IP_REGEX.test(ip)
isValidIP(ip) == ip \in DOMAIN IPv4Octets

\* isPrivateIP(ip)
isPrivateIP(ip) ==
    /\ isValidIP(ip)
    /\ LET first == IPv4Octets[ip][1]
           second == IPv4Octets[ip][2]
       IN  \/ first = 10
           \/ first = 172 /\ second >= 16 /\ second <= 31
           \/ first = 192 /\ second = 168
           \/ first = 127
           \/ first = 169 /\ second = 254
           \/ first >= 224

\* isValidDomain(domain): DOMAIN_REGEX accepts labels of letters, digits and
\* inner hyphens separated by dots, and at least two labels are required;
\* a dotted quad is such a name.
isValidDomain(domain) ==
    \/ \E i \in 1..Len(AllValues) : AllValues[i] = domain
    \/ domain \in DOMAIN IPv4Octets

\* [...new Set(xs)]: the first occurrence of each element, in order.
RECURSIVE Dedupe(_)
Dedupe(xs) ==
    IF xs = <<>> THEN <<>>
    ELSE LET front == Dedupe(SubSeq(xs, 1, Len(xs) - 1))
             last == xs[Len(xs)]
         IN  IF \E i \in 1..Len(front) : front[i] = last THEN front
             ELSE Append(front, last)

\* extractIPs(text): a text is the sequence of its lines, one value a line.
extractIPs(text) ==
    Dedupe(SelectSeq(text, LAMBDA ip : isValidIP(ip) /\ ~isPrivateIP(ip)))

\* extractDomains(text)
extractDomains(text) == Dedupe(SelectSeq(text, isValidDomain))

\* ------------------------------------------------------------------------
\* ThreatCollector (threatCollector.ts:7-267)
\* ------------------------------------------------------------------------

\* 24 * 60 * 60 * 1000 ms: one unit of the clock
ExpiryWindow == 1

ThreatSource(name, weight, enabled, extract_ips, extract_domains) ==
    [name |-> name, format |-> "plain", weight |-> weight, enabled |-> enabled,
     extract_ips |-> extract_ips, extract_domains |-> extract_domains]

\* JSON.parse(env.THREAT_SOURCES_CONFIG)
SourcesConfig ==
    << ThreatSource("S1", 60, TRUE, TRUE, FALSE),
       ThreatSource("S2", 60, TRUE, TRUE, TRUE),
       ThreatSource("S3", 6, FALSE, FALSE, TRUE) >>

\* The source as configured with another format.
WithFormat(source, format) == [source EXCEPT !.format = format]

\* getDefaultSources(): returned as they are, the disabled one included.
getDefaultSources ==
    << ThreatSource("Abuse.ch Feodo Tracker", 8, TRUE, TRUE, FALSE),
       ThreatSource("Malware Domain List", 7, TRUE, FALSE, TRUE),
       ThreatSource("Emerging Threats Compromised IPs", 9, TRUE, TRUE, FALSE),
       ThreatSource("URLVoid Malicious URLs", 6, FALSE, FALSE, TRUE) >>

\* env.THREAT_SOURCES_CONFIG: a text JSON.parse rejects, or the array it
\* gives.
UnparsableConfig == [parsable |-> FALSE, sources |-> <<>>]

ParsedConfig(sources) == [parsable |-> TRUE, sources |-> sources]

\* loadThreatSources() for a given env.THREAT_SOURCES_CONFIG:
\* sourcesConfig.filter(source => source.enabled), or the default sources
\* when JSON.parse raises.
loadThreatSourcesFrom(config) ==
    IF config.parsable
    THEN SelectSeq(config.sources, LAMBDA source : source.enabled)
    ELSE getDefaultSources

\* loadThreatSources() with the configuration of the deployment
loadThreatSources == loadThreatSourcesFrom(ParsedConfig(SourcesConfig))

\* updateSources(newSources): newSources.filter(source => source.enabled)
updateSources(newSources) == SelectSeq(newSources, LAMBDA source : source.enabled)

\* parseSourceData(data, source) raises 'Unsupported format' for a format
\* other than plain, csv and json.
parseRaises(source) == source.format \notin {"plain", "csv", "json"}

\* parseSourceData(data, source): the csv and json formats are not
\* implemented and give nothing.
parseSourceData(data, source) ==
    IF source.format = "plain"
    THEN [ips |-> IF source.extract_ips THEN extractIPs(data) ELSE <<>>,
          domains |-> IF source.extract_domains THEN extractDomains(data) ELSE <<>>]
    ELSE [ips |-> <<>>, domains |-> <<>>]

\* A fetch that raised (network error, timeout, non-2xx), and one that
\* gave a text.
FetchFailed == [ok |-> FALSE, text |-> <<>>]

Fetched(text) == [ok |-> TRUE, text |-> text]

\* A source whose failure is not recorded.
fetchAndParseRaises_Unrecorded(source, fetched) == FALSE

\* fetchAndParseSource(source) raises when the fetch raised or the parse
\* does.
fetchAndParseRaises(source, fetched) == ~fetched.ok \/ parseRaises(source)

\* fetchAndParseSource(source).catch(() => ({ ips: [], domains: [] }))
fetchAndParseSource(source, fetched) ==
    IF fetchAndParseRaises(source, fetched) THEN [ips |-> <<>>, domains |-> <<>>]
    ELSE parseSourceData(fetched.text, source)

\* addThreatIndicator(indicators, value, type, source)
addThreatIndicator(indicators, value, type, source, at) ==
    IF MapHas(indicators, value)
    THEN LET existing == MapGet(indicators, value)
         IN  IF \E i \in 1..Len(existing.sources) : existing.sources[i] = source.name
             THEN indicators
             ELSE MapSet(indicators, value,
                         [existing EXCEPT
                             !.sources = Append(@, source.name),
                             !.score = @ + source.weight * ScoreScale,
                             !.last_seen = at,
                             !.expires_at = at + ExpiryWindow])
    ELSE MapSet(indicators, value,
                ThreatIndicator(value, type, source.weight * ScoreScale, <<source.name>>,
                                at, at, at + ExpiryWindow))

\* for (const v of values) this.addThreatIndicator(allIndicators, v, type, source)
RECURSIVE AddAll(_, _, _, _, _)
AddAll(indicators, values, type, source, at) ==
    IF values = <<>> THEN indicators
    ELSE AddAll(addThreatIndicator(indicators, Head(values), type, source, at),
                Tail(values), type, source, at)

\* The loop of collectThreatIntelligence over results, from source i on.
RECURSIVE ProcessResults(_, _, _, _, _)
ProcessResults(sources, results, i, acc, at) ==
    IF i > Len(sources) THEN acc
    ELSE LET source == sources[i]
             res == fetchAndParseSource(source, results[i])
             failed == IF fetchAndParseRaises(source, results[i])
                       THEN Append(acc.stats.failed_sources, source.name)
                       ELSE acc.stats.failed_sources
             some == Len(res.ips) + Len(res.domains) > 0
             next ==
                [indicators |->
                    IF some
                    THEN AddAll(AddAll(acc.indicators, res.ips, "ip", source, at),
                                res.domains, "domain", source, at)
                    ELSE acc.indicators,
                 stats |->
                    [total_sources |-> Len(sources),
                     successful_sources |->
                        IF some THEN Append(acc.stats.successful_sources, source.name)
                        ELSE acc.stats.successful_sources,
                     failed_sources |-> failed]]
         IN  ProcessResults(sources, results, i + 1, next, at)

\* The stats of a collection that has not run.
NoStats == [total_sources |-> 0, successful_sources |-> <<>>, failed_sources |-> <<>>]

\* collectThreatIntelligence(): results[i] is what the fetch of sources[i]
\* gave.
collectThreatIntelligence(sources, results, at) ==
    ProcessResults(sources, results, 1,
                   [indicators |-> <<>>,
                    stats |-> [total_sources |-> Len(sources),
                               successful_sources |-> <<>>,
                               failed_sources |-> <<>>]],
                   at)

\* The subsequences of a sequence.
RECURSIVE SubSeqs(_)
SubSeqs(xs) ==
    IF xs = <<>> THEN { <<>> }
    ELSE LET rest == SubSeqs(Tail(xs))
         IN  rest \cup { <<Head(xs)>> \o r : r \in rest }

\* What a source may publish: S1 lists addresses, S2 an address S1 also
\* lists and a host name.
SourceFeed(name) ==
    IF name = "S1" THEN <<AllValues[1], AllValues[2]>>
    ELSE <<AllValues[2], AllValues[3]>>

\* What the fetches of the sources may give.
FetchResults(sources) ==
    { results \in [1..Len(sources) ->
                      {FetchFailed} \cup { Fetched(text) : text \in SubSeqs(SubSeq(AllValues, 1, 3)) }] :
        \A i \in 1..Len(sources) :
            results[i].ok => results[i].text \in SubSeqs(SourceFeed(sources[i].name)) }

\* ------------------------------------------------------------------------
\* FeedManager (part_000:140-452)
\* ------------------------------------------------------------------------

Min(a, b) == IF a <= b THEN a ELSE b

MergedIndicator_SumsScores(existingIndicator, newIndicator) ==
    [existingIndicator EXCEPT
        !.score = Min(100 * ScoreScale, existingIndicator.score + newIndicator.score),
        !.sources = Dedupe(existingIndicator.sources \o newIndicator.sources),
        !.last_seen = newIndicator.last_seen,
        !.expires_at = newIndicator.expires_at]

\* mergeIndicators: the entry made for a key present in both Maps
MergedIndicator(existingIndicator, newIndicator) ==
    [existingIndicator EXCEPT
        !.score = Min(100 * ScoreScale, (existingIndicator.score + newIndicator.score) \div 2),
        !.sources = Dedupe(existingIndicator.sources \o newIndicator.sources),
        !.last_seen = newIndicator.last_seen,
        !.expires_at = newIndicator.expires_at]

RECURSIVE mergeIndicators_SkipsNewKeys(_, _)
mergeIndicators_SkipsNewKeys(existing, newIndicators) ==
    IF newIndicators = <<>> THEN existing
    ELSE LET key == Head(newIndicators).key
             newIndicator == Head(newIndicators).val
             merged == IF MapHas(existing, key)
                       THEN MapSet(existing, key, MergedIndicator(MapGet(existing, key), newIndicator))
                       ELSE existing
         IN  mergeIndicators_SkipsNewKeys(merged, Tail(newIndicators))

\* mergeIndicators(existing, newIndicators)
RECURSIVE mergeIndicators(_, _)
mergeIndicators(existing, newIndicators) ==
    IF newIndicators = <<>> THEN existing
    ELSE LET key == Head(newIndicators).key
             newIndicator == Head(newIndicators).val
             merged == IF MapHas(existing, key)
                       THEN MapSet(existing, key, MergedIndicator(MapGet(existing, key), newIndicator))
                       ELSE MapSet(existing, key, newIndicator)
         IN  mergeIndicators(merged, Tail(newIndicators))

FeedUpdateResult(success, feed_id, added, removed, errors) ==
    [success |-> success, feed_id |-> feed_id, indicators_added |-> added,
     indicators_removed |-> removed, errors |-> errors]

\* parseInt(env.FEED_UPDATE_INTERVAL_HOURS) hours: one unit of the clock
UpdateInterval == 1

\* getLastUpdate(): 0 - 1 stands for null
getLastUpdate(store) == IF KVHas(store, K_LAST_UPDATE) THEN store[K_LAST_UPDATE] ELSE 0 - 1

\* An isUpdateNeeded that asks for more than the interval.
isUpdateNeeded_StrictlyLater(store, at) ==
    IF getLastUpdate(store) = 0 - 1 THEN TRUE
    ELSE at - getLastUpdate(store) > UpdateInterval

\* isUpdateNeeded()
isUpdateNeeded(store, at) ==
    IF getLastUpdate(store) = 0 - 1 THEN TRUE
    ELSE at - getLastUpdate(store) >= UpdateInterval

\* What a handler gives its caller: nothing yet, the return of scheduled,
\* or the JSON envelope of fetch.
NoResponse == [kind |-> "none", success |-> FALSE, status |-> 0, error |-> "none", data |-> <<>>]

ScheduledReturned ==
    [kind |-> "void", success |-> FALSE, status |-> 0, error |-> "none", data |-> <<>>]

\* createSuccessResponse(data)
createSuccessResponse(data) ==
    [kind |-> "json", success |-> TRUE, status |-> 200, error |-> "none", data |-> <<data>>]

\* createErrorResponse(message, status)
createErrorResponse(message, status) ==
    [kind |-> "json", success |-> FALSE, status |-> status, error |-> message, data |-> <<>>]

\* updateThreatFeed() has returned result to the handler that called it:
\* scheduled logs it, handleManualUpdate wraps it in a success response.
handlerReturns(trigger, result) ==
    IF trigger = "scheduled" THEN ScheduledReturned
    ELSE IF trigger = "manual" THEN createSuccessResponse(result)
    ELSE NoResponse

\* A scheduled handler that lets the error of the cycle through.
handlerCatches_Propagates(trigger, error) ==
    IF trigger = "none" THEN NoResponse
    ELSE [kind |-> "raised", success |-> FALSE, status |-> 0, error |-> error, data |-> <<>>]

\* updateThreatFeed() has raised error: the catch of scheduled logs it,
\* the catch of fetch answers with an error response of status 500.
handlerCatches(trigger, error) ==
    IF trigger = "scheduled" THEN ScheduledReturned
    ELSE IF trigger = "manual" THEN createErrorResponse(error, 500)
    ELSE NoResponse

\* A catch that stores the last-update timestamp with the error result.
cycleCatch_StoresLastUpdate(store, error, accepts) ==
    /\ kv' = KVPut(KVPut(store, K_UPDATE_STATS, FeedUpdateResult(FALSE, 0, 0, 0, <<error>>)),
                   K_LAST_UPDATE, now)
    /\ cy' = [pc |-> "idle", n |-> cy.n + 1, expiredCount |-> 0, collected |-> <<>>,
              existing |-> <<>>, merged |-> <<>>, raised |-> error, thrown |-> error,
              configured |-> <<>>, sources |-> <<>>, results |-> <<>>, stats |-> NoStats,
              trigger |-> cy.trigger, response |-> handlerCatches(cy.trigger, error),
              settled |-> <<>>]


\* The catch of updateThreatFeed: storeUpdateStats(errorResult), then
\* throw error.  A rejected put of the error result raises in its turn,
\* and that error is the one the caller gets.  accepts holds the answers
\* the backing store may give to the put.
cycleCatch(store, error, accepts) ==
    \E accepted \in accepts :
        /\ kv' = IF accepted
                 THEN KVPut(store, K_UPDATE_STATS, FeedUpdateResult(FALSE, 0, 0, 0, <<error>>))
                 ELSE store
        /\ cy' = [pc |-> "idle", n |-> cy.n + 1, expiredCount |-> 0, collected |-> <<>>,
                  existing |-> <<>>, merged |-> <<>>, raised |-> error,
                  thrown |-> IF accepted THEN error ELSE "put rejected",
                  configured |-> <<>>, sources |-> <<>>, results |-> <<>>, stats |-> NoStats,
                  trigger |-> cy.trigger,
                  response |-> handlerCatches(cy.trigger,
                                              IF accepted THEN error ELSE "put rejected"),
                  settled |-> <<>>]

\* configured, sources, results and stats are those of a ThreatCollector
\* driven on its own: the list its source list was taken from, its source
\* list, what its fetches gave and the stats it returned.
CycleIdle(n) ==
    [pc |-> "idle", n |-> n, expiredCount |-> 0, collected |-> <<>>,
     existing |-> <<>>, merged |-> <<>>, raised |-> "none", thrown |-> "none",
     configured |-> <<>>, sources |-> <<>>, results |-> <<>>, stats |-> NoStats,
     trigger |-> "none", response |-> NoResponse, settled |-> <<>>]

\* updateThreatFeed called by a handler (trigger), step 1:
\* cleanupExpiredIndicators
cycleStart(trigger) ==
    /\ cy.pc = "idle"
    /\ cy.n < MaxCycles
    /\ cleanupExpiredIndicators
    /\ cy' = [cy EXCEPT !.pc = "collect", !.expiredCount = Len(ExpiredDeletes(kv, now)),
                        !.trigger = trigger, !.response = NoResponse]
    /\ UNCHANGED pubVars

\* updateThreatFeed, step 1: cleanupExpiredIndicators
cycleCleanup == cycleStart("none")

\* scheduled(event, env, ctx): a cycle when isUpdateNeeded() is true,
\* nothing otherwise.
scheduled ==
    /\ cy.pc = "idle"
    /\ cy.n < MaxCycles
    /\ IF isUpdateNeeded(kv, now)
       THEN cycleStart("scheduled")
       ELSE /\ cy' = [CycleIdle(cy.n + 1) EXCEPT !.trigger = "scheduled",
                                                 !.response = ScheduledReturned]
            /\ UNCHANGED <<stVars, pubVars>>

\* handleManualUpdate(feedManager): forceUpdate(), that is a cycle
handleManualUpdate == cycleStart("manual")

\* updateThreatFeed, step 2: collectThreatIntelligence
cycleCollect ==
    /\ cy.pc = "collect"
    /\ \E results \in FetchResults(loadThreatSources) :
         cy' = [cy EXCEPT !.pc = "merge",
                          !.collected = collectThreatIntelligence(loadThreatSources, results, now).indicators]
    /\ UNCHANGED <<stVars, pubVars>>

\* updateThreatFeed, steps 3 and 4: getActiveIndicators, mergeIndicators,
\* storeIndicators
cycleMergeStore ==
    /\ cy.pc = "merge"
    /\ LET existingIndicators == getActiveIndicators(kv, now)
           mergedIndicators == mergeIndicators(existingIndicators, cy.collected)
       IN  /\ storeIndicators(mergedIndicators)
           /\ cy' = [cy EXCEPT !.pc = "publish", !.existing = existingIndicators,
                                !.merged = mergedIndicators]
    /\ UNCHANGED pubVars

\* A cycle that publishes the merged set before it is persisted.
cyclePublish_BeforePersist ==
    /\ cy.pc = "merge"
    /\ KVHas(kv, K_FEED_METADATA)
    /\ LET mergedIndicators == mergeIndicators(getActiveIndicators(kv, now), cy.collected)
       IN  /\ updateGatewayListSnapshot(kv[K_FEED_METADATA].feed_id, MapValues(mergedIndicators))
           /\ cy' = [cy EXCEPT !.pc = "publishing", !.merged = mergedIndicators]
    /\ UNCHANGED <<kv, now, st_last>>

\* updateThreatFeed, step 5: getFeedMetadata, then the call of
\* updateGatewayListSnapshot; without metadata the error result is stored
\* and the error raised.
cyclePublish ==
    /\ cy.pc = "publish"
    /\ IF KVHas(kv, K_FEED_METADATA)
       THEN /\ updateGatewayListSnapshot(kv[K_FEED_METADATA].feed_id, MapValues(cy.merged))
            /\ cy' = [cy EXCEPT !.pc = "publishing"]
            /\ UNCHANGED kv
       ELSE /\ cycleCatch(kv, "Feed metadata not found", {TRUE})
            /\ UNCHANGED pubVars
    /\ UNCHANGED <<now, st_last>>

\* updateThreatFeed, step 6: storeFeedMetadata, storeLastUpdate and
\* storeUpdateStats, once the publish has returned.
cycleFinish ==
    /\ cy.pc = "publishing"
    /\ pub.pc = "done"
    /\ LET metadata == kv[K_FEED_METADATA]
           size == Len(cy.merged)
           updateResult == FeedUpdateResult(pub.success, metadata.feed_id,
                                            IF pub.success THEN size ELSE 0,
                                            cy.expiredCount,
                                            IF pub.errors = 0 THEN <<>> ELSE <<"upload failed">>)
       IN  /\ kv' = KVPut(KVPut(KVPut(kv,
                        K_FEED_METADATA, FeedMetadata(metadata.feed_id, now, size)),
                        K_LAST_UPDATE, now),
                        K_UPDATE_STATS, updateResult)
           /\ cy' = [CycleIdle(cy.n + 1) EXCEPT
                        !.trigger = cy.trigger,
                        !.response = handlerReturns(cy.trigger, updateResult)]
    /\ pub' = PubIdle
    /\ UNCHANGED <<now, st_last, gw, gw_next>>

\* updateThreatFeed when a read or a delete of cleanupExpiredIndicators is
\* rejected by the backing store.
cycleCleanupRaises ==
    /\ cy.pc = "idle"
    /\ cy.n < MaxCycles
    /\ cycleCatch(kv, "cleanup", BOOLEAN)
    /\ UNCHANGED <<now, st_last, pubVars>>

\* updateThreatFeed when the read of getActiveIndicators is rejected, or a
\* write of storeIndicators.
cycleMergeStoreRaises ==
    /\ cy.pc = "merge"
    /\ \/ cycleCatch(kv, "load", BOOLEAN)
       \/ \E store \in FailedPersistStores(kv, mergeIndicators(getActiveIndicators(kv, now),
                                                                 cy.collected)) :
             cycleCatch(store, "persist", BOOLEAN)
    /\ UNCHANGED <<now, st_last, pubVars>>

\* updateThreatFeed when the read of getFeedMetadata is rejected, or when
\* no metadata is stored and the put of the error result is rejected.
cyclePublishRaises ==
    /\ cy.pc = "publish"
    /\ \/ cycleCatch(kv, "metadata", BOOLEAN)
       \/ ~KVHas(kv, K_FEED_METADATA) /\ cycleCatch(kv, "Feed metadata not found", {FALSE})
    /\ UNCHANGED <<now, st_last, pubVars>>

\* updateThreatFeed when a put of step 6 is rejected: the puts awaited
\* before it have landed.
cycleFinishRaises ==
    /\ cy.pc = "publishing"
    /\ pub.pc = "done"
    /\ LET metadata == kv[K_FEED_METADATA]
           store1 == KVPut(kv, K_FEED_METADATA,
                           FeedMetadata(metadata.feed_id, now, Len(cy.merged)))
           store2 == KVPut(store1, K_LAST_UPDATE, now)
       IN  \/ cycleCatch(kv, "metadata write", BOOLEAN)
           \/ cycleCatch(store1, "last update write", BOOLEAN)
           \/ cycleCatch(store2, "result write", BOOLEAN)
    /\ pub' = PubIdle
    /\ UNCHANGED <<now, st_last, gw, gw_next>>

\* --- a ThreatCollector driven on its own ---

\* The sources a configuration may name: two enabled ones that report a
\* common address, a disabled one, and two enabled ones whose format has
\* no parser.
CollectSourcePool ==
    << ThreatSource("S1", 60, TRUE, TRUE, FALSE),
       ThreatSource("S2", 60, TRUE, TRUE, TRUE),
       ThreatSource("S3", 6, FALSE, FALSE, TRUE),
       WithFormat(ThreatSource("S4", 30, TRUE, TRUE, TRUE), "xml"),
       WithFormat(ThreatSource("S5", 30, TRUE, TRUE, TRUE), "csv") >>

CollectSourceLists == SubSeqs(CollectSourcePool)

CollectConfigs == {UnparsableConfig} \cup { ParsedConfig(l) : l \in CollectSourceLists }

\* new ThreatCollector(env), for any env.THREAT_SOURCES_CONFIG
collectorNew ==
    /\ cy.pc = "idle"
    /\ \E config \in CollectConfigs :
         cy' = [CycleIdle(0) EXCEPT !.pc = "constructed",
                                    !.configured = IF config.parsable THEN config.sources
                                                   ELSE getDefaultSources,
                                    !.sources = loadThreatSourcesFrom(config)]
    /\ UNCHANGED <<stVars, pubVars>>

\* updateSources(newSources) on the collector
collectorUpdateSources ==
    /\ cy.pc = "constructed"
    /\ \E newSources \in CollectSourceLists :
         cy' = [cy EXCEPT !.pc = "updated", !.configured = newSources,
                          !.sources = updateSources(newSources)]
    /\ UNCHANGED <<stVars, pubVars>>

\* collectThreatIntelligence() on the collector: every source of its list
\* is fetched, and results[i] is what the fetch of the i-th gave.
collectorCollect ==
    /\ cy.pc \in {"constructed", "updated"}
    /\ \E results \in FetchResults(cy.sources) :
         LET result == collectThreatIntelligence(cy.sources, results, now)
         IN  cy' = [cy EXCEPT !.pc = "collected", !.results = results,
                              !.collected = result.indicators, !.stats = result.stats]
    /\ UNCHANGED <<stVars, pubVars>>

\* The arrays a PUT /sources may carry.
UpdateSourceLists == SubSeqs(SubSeq(CollectSourcePool, 1, 3))

\* handleUpdateSources(feedManager, request) of a request of its own:
\* the FeedManager made for the request stores the array under
\* config:sources and replaces the list of its own collector, and is
\* dropped when the request returns.
handleUpdateSources ==
    /\ cy.pc = "idle"
    /\ \E sources \in UpdateSourceLists :
         /\ kv' = KVPut(kv, K_SOURCES_CONFIG, sources)
         /\ cy' = [CycleIdle(0) EXCEPT !.configured = sources,
                                       !.sources = updateSources(sources)]
    /\ UNCHANGED <<now, st_last, pubVars>>

\* The lines of the plain texts extraction is tried on: addresses of the
\* private, loopback, link-local and multicast ranges, an address next to
\* a private range, public addresses and a host name.
ExtractLines ==
    <<"10.0.0.1", "172.16.5.5", "172.32.0.1", "192.168.1.1", "127.0.0.1", "169.254.1.1",
      "224.0.0.1", "8.8.8.8", "1.1.1.1", "evil.example">>

\* A plain source with each combination of extract_ips and extract_domains.
ExtractSources ==
    { ThreatSource("S1", 60, TRUE, extract_ips, extract_domains) :
        extract_ips \in BOOLEAN, extract_domains \in BOOLEAN }

\* collectThreatIntelligence() of a collector with one plain source, whose
\* fetch gave any text over ExtractLines.
collectorExtract ==
    /\ cy.pc = "idle"
    /\ \E source \in ExtractSources, text \in SubSeqs(ExtractLines) :
         LET result == collectThreatIntelligence(<<source>>, <<Fetched(text)>>, now)
         IN  cy' = [CycleIdle(0) EXCEPT !.pc = "extracted", !.configured = <<source>>,
                                        !.sources = <<source>>,
                                        !.results = <<Fetched(text)>>,
                                        !.collected = result.indicators,
                                        !.stats = result.stats]
    /\ UNCHANGED <<stVars, pubVars>>

InitCycle == cy = CycleIdle(0)

\* The indicator a sample Map may hold for AllValues[i]: v picks its score
\* and its sources, at the time it was sighted.
MergeSampleIndicator(i, v, at) ==
    ThreatIndicator(AllValues[i], IF isValidIP(AllValues[i]) THEN "ip" ELSE "domain",
                    (CASE v = 1 -> 10 [] v = 2 -> 6 [] v = 3 -> 120 [] OTHER -> 95) * ScoreScale,
                    CASE v = 1 -> <<"S1">> [] v = 2 -> <<"S2">> [] v = 3 -> <<"S1", "S2">>
                      [] OTHER -> <<"S2", "S3">>,
                    at, at, at + ExpiryWindow)

\* The Maps over the values AllValues[i], i in 2..3, sighted at a given
\* time, in either insertion order.
MergeSampleMaps(at) ==
    LET entry(i, v) == [key |-> AllValues[i], val |-> MergeSampleIndicator(i, v, at)]
        Variants == 1..4
    IN  { <<>> }
        \cup { <<entry(i, v)>> : i \in 2..3, v \in Variants }
        \cup { <<entry(2, v), entry(3, w)>> : v \in Variants, w \in Variants }
        \cup { <<entry(3, v), entry(2, w)>> : v \in Variants, w \in Variants }

\* mergeIndicators(existing, newIndicators) called with a stored Map
\* sighted at time 0 and a fresh one sighted now.
mergeCall ==
    /\ cy.pc = "idle"
    /\ \E existing \in MergeSampleMaps(0), newIndicators \in MergeSampleMaps(now) :
         cy' = [CycleIdle(0) EXCEPT !.pc = "merged", !.existing = existing,
                                    !.collected = newIndicators,
                                    !.merged = mergeIndicators(existing, newIndicators)]
    /\ UNCHANGED <<stVars, pubVars>>

InitPub ==
    /\ gw = <<>>
    /\ gw_next = 1
    /\ pub = PubIdle

\* The arrays handed to the publisher: the values of every Map over the
\* first maxItemsPerList + 2 sample indicators.
PublishSamples == { MapValues(m) : m \in SampleMapsFrom(1, maxItemsPerList + 2) }

\* The state after construction.
Init == InitRq /\ InitStore /\ InitPub /\ InitCycle

NextStore ==
    \/ \E m \in SampleMaps : storeIndicators(m) /\ UNCHANGED <<rqVars, pubVars, cy>>
    \/ cleanupExpiredIndicators /\ UNCHANGED <<rqVars, pubVars, cy>>
    \/ updateIndicator(AllValues[1], SampleIndicator(1)) /\ UNCHANGED <<rqVars, pubVars, cy>>
    \/ deleteIndicator(AllValues[1]) /\ UNCHANGED <<rqVars, pubVars, cy>>
    \/ clearAllData /\ UNCHANGED <<rqVars, pubVars, cy>>
    \/ Tick /\ UNCHANGED <<rqVars, pubVars, cy>>

SpecStore == Init /\ [][NextStore]_vars

\* The store when the backing namespace may reject writes.
NextStoreFaults ==
    \/ NextStore
    \/ \E m \in SampleMaps : storeIndicatorsSingleFails(m) /\ UNCHANGED <<rqVars, pubVars, cy>>
    \/ \E m \in SampleMaps : storeIndicatorsChunkedFails(m) /\ UNCHANGED <<rqVars, pubVars, cy>>

SpecStoreFaults == Init /\ [][NextStoreFaults]_vars

\* The publisher, called with any array once the feed is initialized.
NextPublish ==
    \/ ~KVHas(kv, K_FEED_METADATA) /\ initialize /\ UNCHANGED <<rqVars, now, st_last, pub, cy>>
    \/ /\ KVHas(kv, K_FEED_METADATA)
       /\ \E indicators \in PublishSamples :
             updateGatewayListSnapshot(kv[K_FEED_METADATA].feed_id, indicators)
       /\ UNCHANGED <<rqVars, stVars, cy>>
    \/ clearGatewayList /\ UNCHANGED <<rqVars, stVars, cy>>
    \/ appendBatchSingle /\ UNCHANGED <<rqVars, stVars, cy>>
    \/ cleanupListAll /\ UNCHANGED <<rqVars, stVars, cy>>
    \/ cleanupDelete /\ UNCHANGED <<rqVars, stVars, cy>>
    \/ createList /\ UNCHANGED <<rqVars, stVars, cy>>
    \/ appendBatchMulti /\ UNCHANGED <<rqVars, stVars, cy>>
    \/ storeGatewayListIds /\ UNCHANGED <<rqVars, now, st_last, cy>>

SpecPublish == Init /\ [][NextPublish]_vars

\* initialize() called any number of times (POST /initialize, POST /reset),
\* at any time.
NextInitialize ==
    \/ initialize /\ UNCHANGED <<rqVars, now, st_last, pub, cy>>
    \/ resetFeed /\ UNCHANGED rqVars
    \/ Tick /\ UNCHANGED <<rqVars, pubVars, cy>>

SpecInitialize == Init /\ [][NextInitialize]_vars

\* The whole system: initialize, update cycles one after the other, and
\* the clock, which moves between cycles.
Next ==
    \/ cy.pc = "idle" /\ ~KVHas(kv, K_FEED_METADATA) /\ initialize
          /\ UNCHANGED <<rqVars, now, st_last, pub, cy>>
    \/ cycleCleanup /\ UNCHANGED rqVars
    \/ cycleCollect /\ UNCHANGED rqVars
    \/ cycleMergeStore /\ UNCHANGED rqVars
    \/ cyclePublish /\ UNCHANGED rqVars
    \/ clearGatewayList /\ UNCHANGED <<rqVars, stVars, cy>>
    \/ appendBatchSingle /\ UNCHANGED <<rqVars, stVars, cy>>
    \/ cleanupListAll /\ UNCHANGED <<rqVars, stVars, cy>>
    \/ cleanupDelete /\ UNCHANGED <<rqVars, stVars, cy>>
    \/ createList /\ UNCHANGED <<rqVars, stVars, cy>>
    \/ appendBatchMulti /\ UNCHANGED <<rqVars, stVars, cy>>
    \/ storeGatewayListIds /\ UNCHANGED <<rqVars, now, st_last, cy>>
    \/ cycleFinish /\ UNCHANGED rqVars
    \/ cy.pc = "idle" /\ Tick /\ UNCHANGED <<rqVars, pubVars, cy>>

Spec == Init /\ [][Next]_vars

\* mergeIndicators alone, on sample Maps, as the clock moves.
NextMerge ==
    \/ mergeCall /\ UNCHANGED rqVars
    \/ cy.pc = "idle" /\ Tick /\ UNCHANGED <<rqVars, pubVars, cy>>

\* The whole system when the backing store starts to reject reads and
\* writes during the last update cycle of a behaviour.
NextCycleFaults ==
    \/ Next
    \/ cy.n = MaxCycles - 1 /\ cycleCleanupRaises /\ UNCHANGED rqVars
    \/ cy.n = MaxCycles - 1 /\ cycleMergeStoreRaises /\ UNCHANGED rqVars
    \/ cy.n = MaxCycles - 1 /\ cyclePublishRaises /\ UNCHANGED rqVars
    \/ cy.n = MaxCycles - 1 /\ cycleFinishRaises /\ UNCHANGED rqVars

SpecCycleFaults == Init /\ [][NextCycleFaults]_vars

\* The whole system driven by its handlers: every cycle is started by a
\* scheduled event or by a manual update.
NextHandlers ==
    \/ cy.pc = "idle" /\ ~KVHas(kv, K_FEED_METADATA) /\ initialize
          /\ UNCHANGED <<rqVars, now, st_last, pub, cy>>
    \/ scheduled /\ UNCHANGED rqVars
    \/ handleManualUpdate /\ UNCHANGED rqVars
    \/ cycleCollect /\ UNCHANGED rqVars
    \/ cycleMergeStore /\ UNCHANGED rqVars
    \/ cyclePublish /\ UNCHANGED rqVars
    \/ clearGatewayList /\ UNCHANGED <<rqVars, stVars, cy>>
    \/ appendBatchSingle /\ UNCHANGED <<rqVars, stVars, cy>>
    \/ cleanupListAll /\ UNCHANGED <<rqVars, stVars, cy>>
    \/ cleanupDelete /\ UNCHANGED <<rqVars, stVars, cy>>
    \/ createList /\ UNCHANGED <<rqVars, stVars, cy>>
    \/ appendBatchMulti /\ UNCHANGED <<rqVars, stVars, cy>>
    \/ storeGatewayListIds /\ UNCHANGED <<rqVars, now, st_last, cy>>
    \/ cycleFinish /\ UNCHANGED rqVars
    \/ cy.pc = "idle" /\ Tick /\ UNCHANGED <<rqVars, pubVars, cy>>

SpecHandlers == Init /\ [][NextHandlers]_vars

\* Configuration updates, each in a request of its own, and the collection
\* of a FeedManager constructed after them.
NextSources ==
    \/ handleUpdateSources /\ UNCHANGED rqVars
    \/ collectorNew /\ UNCHANGED rqVars
    \/ collectorCollect /\ UNCHANGED rqVars
    \/ cy.pc = "idle" /\ Tick /\ UNCHANGED <<rqVars, pubVars, cy>>

SpecSources == Init /\ [][NextSources]_vars

\* Extraction alone, on any text with any flags.
NextExtract ==
    \/ collectorExtract /\ UNCHANGED rqVars
    \/ cy.pc = "idle" /\ Tick /\ UNCHANGED <<rqVars, pubVars, cy>>

SpecExtract == Init /\ [][NextExtract]_vars

\* The arrays the split is tried on: the values of every Map over the
\* sample indicators, some of which expire as the clock moves.
SplitSamples == { MapValues(m) : m \in SampleMapsFrom(1, Len(AllValues)) }

\* updateGatewayListSnapshot alone, called once on any array at any time.
NextSplit ==
    \/ /\ pub.pc = "idle"
       /\ \E listId \in 1..MaxListIds, indicators \in SplitSamples :
             updateGatewayListSnapshot(listId, indicators)
       /\ UNCHANGED <<rqVars, stVars, cy>>
    \/ pub.pc = "idle" /\ Tick /\ UNCHANGED <<rqVars, pubVars, cy>>

SpecSplit == Init /\ [][NextSplit]_vars

\* An indicator of the arrays published twice.
RepublishIndicator(i, expires_at) ==
    ThreatIndicator(AllValues[i], IF isValidIP(AllValues[i]) THEN "ip" ELSE "domain",
                    8 * ScoreScale, <<"S1">>, 0, 0, expires_at)

\* The arrays published twice: each of the first maxItemsPerList + 1
\* values is absent, or expires after one tick, or outlives the clock.
RECURSIVE RepublishSamplesFrom(_)
RepublishSamplesFrom(i) ==
    IF i > maxItemsPerList + 1 THEN { <<>> }
    ELSE LET rest == RepublishSamplesFrom(i + 1)
         IN  rest \cup { <<RepublishIndicator(i, e)>> \o r : e \in {1, MaxTime + 1}, r \in rest }

RepublishSamples == RepublishSamplesFrom(1)

\* The publisher run once and then once more by the same caller, at the
\* same time or later, whether or not the feed was initialized.
NextRepublish ==
    \/ pub.pc = "idle" /\ ~KVHas(kv, K_FEED_METADATA) /\ initialize
          /\ UNCHANGED <<rqVars, now, st_last, pub, cy>>
    \/ /\ pub.pc = "idle"
       /\ \E indicators \in RepublishSamples : updateGatewayListSnapshot(1, indicators)
       /\ UNCHANGED <<rqVars, stVars, cy>>
    \/ republish /\ UNCHANGED <<rqVars, stVars, cy>>
    \/ clearGatewayList /\ UNCHANGED <<rqVars, stVars, cy>>
    \/ appendBatchSingle /\ UNCHANGED <<rqVars, stVars, cy>>
    \/ cleanupListAll /\ UNCHANGED <<rqVars, stVars, cy>>
    \/ cleanupDelete /\ UNCHANGED <<rqVars, stVars, cy>>
    \/ createList /\ UNCHANGED <<rqVars, stVars, cy>>
    \/ appendBatchMulti /\ UNCHANGED <<rqVars, stVars, cy>>
    \/ storeGatewayListIds /\ UNCHANGED <<rqVars, now, st_last, cy>>
    \/ pub.pc \in {"idle", "done"} /\ Tick /\ UNCHANGED <<rqVars, pubVars, cy>>

SpecRepublish == Init /\ [][NextRepublish]_vars

SpecMerge == Init /\ [][NextMerge]_vars

\* A ThreatCollector alone: constructed at any time from any
\* configuration, its sources possibly replaced, then one collection.
NextCollect ==
    \/ collectorNew /\ UNCHANGED rqVars
    \/ collectorUpdateSources /\ UNCHANGED rqVars
    \/ collectorCollect /\ UNCHANGED rqVars
    \/ cy.pc = "idle" /\ Tick /\ UNCHANGED <<rqVars, pubVars, cy>>

SpecCollect == Init /\ [][NextCollect]_vars


NextRetry ==
    \/ makeRequestStart
    \/ makeRequestFetch
    \/ makeRequestWait

SpecRetry == Init /\ [][NextRetry]_vars

\* makeRequest when every fetch settles (with a response or a rejection)
\* and every setTimeout fires.
SpecRetryFair ==
    SpecRetry /\ WF_vars(makeRequestFetch) /\ WF_vars(makeRequestWait)

\* ------------------------------------------------------------------------
\* Properties of the store
\* ------------------------------------------------------------------------

\* The chunk keys present in the backing namespace.
ChunkKeys(store) == { k \in DOMAIN store : k[1] = "indicators:chunk:" }

LastPersistOk == st_last.op = "storeIndicators" /\ st_last.ok

\* C6: after a successful persist, whatever successful persists (above or
\* below the size threshold) came before, load returns without raising a
\* Map equal to the argument of that persist.
C6_LoadReturnsLastPersist ==
    LastPersistOk =>
        /\ ~getAllIndicators(kv).raised
        /\ MapAsSet(getAllIndicators(kv).map) = MapAsSet(st_last.arg)
        /\ Len(getAllIndicators(kv).map) = Len(st_last.arg)

\* A non-empty set below the threshold was persisted after one above it.
C6_Witness ==
    /\ LastPersistOk
    /\ Len(st_last.arg) >= 1
    /\ FitsSingleEntry(Stringify(st_last.arg))
    /\ ChunkKeys(kv) # {}
    /\ MapAsSet(getAllIndicators(kv).map) = MapAsSet(st_last.arg)

\* C7: when a chunk index exists and a chunk it declares is absent, load
\* raises an error.
C7_MissingChunkRaises ==
    (/\ KVHas(kv, K_INDICATORS_INDEX)
     /\ \E i \in 0..(kv[K_INDICATORS_INDEX].total_chunks - 1) :
            ~KVHas(kv, K_INDICATORS_CHUNKS(i)))
        => getAllIndicators(kv).raised

\* C8: after a successful persist of a set at or below the threshold the
\* namespace holds the single entry, no chunk index and no chunk entry.
C8_SmallPersistLeavesNoChunks ==
    (LastPersistOk /\ FitsSingleEntry(Stringify(st_last.arg)))
        => /\ KVHas(kv, K_ALL_INDICATORS)
           /\ ~KVHas(kv, K_INDICATORS_INDEX)
           /\ ChunkKeys(kv) = {}

\* C9: after cleanupExpired returned at time t, load returns exactly the
\* entries stored before that had expires_at > t, unchanged, and the
\* returned count is the number of entries that are gone.
C9_CleanupRemovesExpired ==
    (st_last.op = "cleanupExpiredIndicators")
        => /\ getAllIndicators(kv).map =
                 SelectSeq(st_last.before, LAMBDA e : e.val.expires_at > st_last.at)
           /\ st_last.ret = Len(st_last.before) - Len(getAllIndicators(kv).map)

\* ------------------------------------------------------------------------
\* Properties of makeRequest
\* ------------------------------------------------------------------------

\* The fetches of the current call, in order.
FetchLog == SelectSeq(rq_log, LAMBDA e : e.ev = "fetch")

\* The waits of the current call, in order.
WaitLog == SelectSeq(rq_log, LAMBDA e : e.ev = "wait")

HardError(e) == e.status # 0 /\ e.status # 429 /\ ~ResponseOk(e)

\* C3: a request whose response is a non-2xx status other than 429 raises
\* its error after exactly one attempt, with no backoff wait and no second
\* fetch.
C3_HardErrorNotRetried ==
    (Len(rq_log) >= 1 /\ HardError(rq_log[1]))
        => (rq_pc = "thrown" /\ Len(FetchLog) = 1 /\ Len(WaitLog) = 0)

\* C4: responses 429, 429, 2xx make the call return the 2xx body without
\* raising; one wait precedes the second fetch and one the third, and the
\* second wait is twice the first.
C4_TwoRateLimitsThenSuccess ==
    (/\ Len(FetchLog) = 3
     /\ FetchLog[1].status = 429
     /\ FetchLog[2].status = 429
     /\ ResponseOk(FetchLog[3]))
        => /\ rq_pc = "returned"
           /\ rq_value = FetchLog[3].body
           /\ Len(rq_log) = 5
           /\ rq_log[2].ev = "wait" /\ rq_log[4].ev = "wait"
           /\ rq_log[2].ms > 0
           /\ rq_log[4].ms = 2 * rq_log[2].ms

C4_Witness ==
    /\ rq_pc = "returned"
    /\ Len(FetchLog) = 3
    /\ FetchLog[1].status = 429 /\ FetchLog[2].status = 429
    /\ FetchLog[3].status = 200
    /\ Len(WaitLog) = 2

\* C5: a call that receives 429 on every attempt never returns a result;
\* it raises, and does so after exactly maxRetries (3) fetches.
C5_RateLimitExhausted ==
    (Len(FetchLog) >= 1 /\ \A i \in 1..Len(FetchLog) : FetchLog[i].status = 429)
        => /\ rq_pc # "returned"
           /\ Len(FetchLog) <= maxRetries
           /\ (rq_pc = "thrown") <=> (Len(FetchLog) = maxRetries)

C5_Witness ==
    /\ rq_pc = "thrown"
    /\ Len(FetchLog) = 3
    /\ \A i \in 1..3 : FetchLog[i].status = 429

\* ------------------------------------------------------------------------
\* Properties of the publisher
\* ------------------------------------------------------------------------

\* The lists this system owns: the configured feed list of the current
\* publish and every list whose name has the reserved prefix.
OwnedLists == { id \in DOMAIN gw : id = pub.listId \/ StartsWithPrefix(gw[id].name) }

\* The items held by the owned lists.
OwnedItems == UNION { gw[id].items : id \in OwnedLists }

\* The items of the non-expired indicators of the array given to the
\* current publish.
ExpectedItems == Items(SelectSeq(pub.input, LAMBDA ind : ind.expires_at > pub.at))

\* C1: when a publish has returned success and every downstream call it
\* made succeeded, the items held by the owned lists (the feed list and the
\* lists with the reserved prefix) are exactly the non-expired indicators
\* of its input, whatever publishes came before.
C1_OwnedListsMatchInput ==
    (pub.pc = "done" /\ pub.success /\ pub.allOk) => OwnedItems = ExpectedItems

\* C2: in multi-list mode the publish returns success = false with a
\* non-empty error list whenever a partition's list was not created or not
\* fully populated, and success = true only when every partition was
\* created and fully populated.
C2_MultiListSuccessReflectsFailures ==
    (pub.pc = "done" /\ pub.mode = "multi")
        => /\ pub.partFailed => (~pub.success /\ pub.errors > 0)
           /\ pub.success => Len(pub.createdListIds) = Len(pub.lists)

\* ------------------------------------------------------------------------
\* Properties of the scores
\* ------------------------------------------------------------------------

ScoreInRange(indicator) == 0 <= indicator.score /\ indicator.score <= 100 * ScoreScale

ScoresInRange(indicators) ==
    \A i \in 1..Len(indicators) : ScoreInRange(indicators[i].val)

\* C10: in every reachable state every indicator of the collector's
\* output, of the merged set and of the store has a score from 0 to 100.
C10_ScoresWithinBounds ==
    /\ ScoresInRange(cy.collected)
    /\ ScoresInRange(cy.merged)
    /\ ScoresInRange(getAllIndicators(kv).map)

\* ------------------------------------------------------------------------
\* Properties of mergeIndicators
\* ------------------------------------------------------------------------

\* mergeIndicators has returned and its arguments and result are at hand.
MergeDone == cy.pc \in {"merged", "publish", "publishing"}

SeqSet(xs) == { xs[i] : i \in 1..Len(xs) }

NoDuplicates(xs) == \A i, j \in 1..Len(xs) : xs[i] = xs[j] => i = j

SharedKeys == MapKeys(cy.existing) \cap MapKeys(cy.collected)

C12_MergeKeySetAndFrame ==
    MergeDone =>
        /\ MapKeys(cy.merged) = MapKeys(cy.existing) \cup MapKeys(cy.collected)
        /\ Len(cy.merged) = Cardinality(MapKeys(cy.merged))
        /\ \A key \in MapKeys(cy.existing) \ MapKeys(cy.collected) :
              MapGet(cy.merged, key) = MapGet(cy.existing, key)
        /\ \A key \in MapKeys(cy.collected) \ MapKeys(cy.existing) :
              MapGet(cy.merged, key) = MapGet(cy.collected, key)

\* A merge of a Map holding one value with a fresh Map holding another.
C12_Witness ==
    /\ cy.pc = "merged"
    /\ MapKeys(cy.existing) = {AllValues[2]}
    /\ MapKeys(cy.collected) = {AllValues[3]}
    /\ MapKeys(cy.merged) = {AllValues[2], AllValues[3]}

\* ------------------------------------------------------------------------
\* Properties of the update cycle
\* ------------------------------------------------------------------------

\* The step in which a cycle that reached its publish returns.
CycleReturns == cy.pc = "publishing" /\ cy'.pc = "idle"

\* C13: the last-update timestamp is written only by a cycle whose stored
\* result has success = true, and a cycle whose publish reported failure
\* leaves isUpdateNeeded() true when it was true before.
C13_LastUpdateOnlyOnSuccess ==
    [][/\ getLastUpdate(kv') # getLastUpdate(kv)
            => (KVHas(kv', K_UPDATE_STATS) /\ kv'[K_UPDATE_STATS].success)
       /\ (CycleReturns /\ ~kv'[K_UPDATE_STATS].success /\ isUpdateNeeded(kv, now))
            => isUpdateNeeded(kv', now')]_vars

\* C14: when a step of a cycle raises, the cycle ends there (cy.raised
\* names the step and no later step runs), a result with success = false
\* and the error's message is stored, and the caller gets that same error.
C14_RaisedStepAbortsCycle ==
    cy.raised # "none" =>
        /\ cy.thrown = cy.raised
        /\ KVHas(kv, K_UPDATE_STATS)
        /\ ~kv[K_UPDATE_STATS].success
        /\ kv[K_UPDATE_STATS].errors = <<cy.raised>>

\* The steps of a cycle, told by what they do.
CleanupStep == st_last' # st_last /\ st_last'.op = "cleanupExpiredIndicators"

CollectStep == cy.pc = "collect" /\ cy'.pc = "merge"

PersistStep == st_last' # st_last /\ st_last'.op = "storeIndicators"

PublishStarts == pub.pc \in {"idle", "done"} /\ pub'.pc \notin {"idle", "done"}

PublishRequest == gw' # gw /\ cy.pc # "idle"

FinalWrite ==
    \/ getLastUpdate(kv') # getLastUpdate(kv)
    \/ CycleReturns

\* C15: in every cycle cleanupExpired comes first, collect follows the
\* return of cleanupExpired, the set persisted is the merge of the store's
\* active set with the collected set, publish starts only once that merged
\* set is persisted and is handed that set, and FeedMetadata, the last
\* update and the RunResult are written only once publish has returned.
C15_StepOrder ==
    [][/\ CleanupStep => (cy.pc = "idle" /\ pub.pc = "idle")
       /\ CollectStep =>
            /\ st_last.op = "cleanupExpiredIndicators"
            /\ st_last.at = now
            /\ pub.pc = "idle"
       /\ PersistStep =>
            /\ cy.pc = "merge"
            /\ pub.pc = "idle"
            /\ st_last.op = "cleanupExpiredIndicators"
            /\ st_last'.arg = mergeIndicators(getActiveIndicators(kv, now), cy.collected)
       /\ PublishStarts =>
            /\ st_last.op = "storeIndicators"
            /\ st_last.ok
            /\ cy.merged = st_last.arg
            /\ pub'.input = MapValues(st_last.arg)
       /\ PublishRequest => (cy.pc = "publishing" /\ st_last.op = "storeIndicators")
       /\ FinalWrite =>
            /\ cy.pc = "publishing"
            /\ pub.pc = "done"
            /\ pub.input = MapValues(cy.merged)]_vars

\* A cycle has run to its end and published a non-empty merged set.
C15_Witness ==
    /\ cy.pc = "idle"
    /\ cy.n >= 1
    /\ KVHas(kv, K_UPDATE_STATS)
    /\ kv[K_UPDATE_STATS].success
    /\ kv[K_UPDATE_STATS].indicators_added > 0
    /\ st_last.op = "storeIndicators"
    /\ gw # <<>>

\* A request of the partition in hand failed: the create request, or an
\* append of its batch loop.
PartitionFails ==
    /\ pub.pc \in {"create", "populate"}
    /\ gw' = gw
    /\ gw_next' = gw_next

\* The number of the partition a list created by the publish in hand holds.
PartOf(id) == gw[id].name[3]

\* Every id pushed to createdListIds is the id of a list that holds the
\* whole of its partition.
CreatedListsComplete ==
    \A k \in 1..Len(pub.createdListIds) :
        LET id == pub.createdListIds[k]
        IN  /\ id \in DOMAIN gw
            /\ gw[id].name = ListName(DateStamp(pub.at), PartOf(id), Len(pub.lists))
            /\ PartOf(id) \in 1..Len(pub.lists)
            /\ gw[id].items = Items(pub.lists[PartOf(id)])

\* C16: in multi-list mode a failed create or append of partition i ends
\* the work on partition i only: the loop goes on with the creation of
\* partition i + 1 (or, after the last one, with the persisting of the
\* ids), every later partition is populated in full whatever failed
\* before it, and the id of the failed partition's list is neither pushed
\* nor persisted.
C16_PartitionFailureIsolated ==
    [][/\ PartitionFails =>
            /\ pub'.i = pub.i + 1
            /\ pub'.lists = pub.lists
            /\ pub'.createdListIds = pub.createdListIds
            /\ pub.pc = "populate" => pub.gatewayList \notin SeqSet(pub'.createdListIds)
            /\ pub'.pc = IF pub.i + 1 < Len(pub.lists) THEN "create" ELSE "store_ids"
       /\ (pub.pc = "populate" /\ ~PartitionFails) =>
            gw'[pub.gatewayList].items =
                gw[pub.gatewayList].items \cup Items(Batch(pub.lists[pub.i + 1], pub.batchIndex))
       /\ (pub.pc = "store_ids" /\ kv' # kv) =>
            /\ pub.i = Len(pub.lists)
            /\ kv'[K_GATEWAY_LISTS].ids = pub.createdListIds
       /\ CreatedListsComplete']_vars

\* A multi-list publish has returned: its first partition failed in its
\* batch loop after the list was created, the second one was populated in
\* full and only its id was persisted.
C16_Witness ==
    /\ pub.pc = "done"
    /\ pub.mode = "multi"
    /\ pub.partFailed
    /\ Len(pub.lists) = 2
    /\ Len(pub.createdListIds) = 1
    /\ PartOf(pub.createdListIds[1]) = 2
    /\ \E id \in DOMAIN gw :
         /\ gw[id].name = ListName(DateStamp(pub.at), 1, 2)
         /\ gw[id].items # Items(pub.lists[1])
         /\ gw[id].items # {}
    /\ KVHas(kv, K_GATEWAY_LISTS)
    /\ kv[K_GATEWAY_LISTS].ids = pub.createdListIds

\* The concatenation of the first k of a sequence of sequences.
RECURSIVE Concat(_, _)
Concat(lists, k) == IF k = 0 THEN <<>> ELSE Concat(lists, k - 1) \o lists[k]

\* C17: with more active indicators than one list may hold, the publish
\* forms exactly ceil(n / maxItemsPerList) partitions, contiguous slices of
\* the active indicators in their order, each non-empty and no longer
\* than maxItemsPerList, pairwise disjoint and holding every indicator
\* exactly once; with no more than maxItemsPerList the single-list path is
\* taken.
C17_PartitionsAreContiguousSlices ==
    pub.pc # "idle" =>
        LET active == pub.activeIndicators
            n == Len(active)
            lists == pub.lists
        IN  /\ active = SelectSeq(pub.input, LAMBDA ind : ind.expires_at > pub.at)
            /\ (pub.mode = "single") = (n <= maxItemsPerList)
            /\ (pub.mode = "multi") = (n > maxItemsPerList)
            /\ pub.mode = "single" => lists = <<>>
            /\ pub.mode = "multi" =>
                /\ Len(lists) * maxItemsPerList >= n
                /\ (Len(lists) - 1) * maxItemsPerList < n
                /\ Concat(lists, Len(lists)) = active
                /\ \A i \in 1..Len(lists) :
                     /\ Len(lists[i]) >= 1
                     /\ Len(lists[i]) <= maxItemsPerList
                /\ \A i \in 1..Len(lists), j \in 1..Len(lists) :
                     i # j => SeqSet(lists[i]) \cap SeqSet(lists[j]) = {}
                /\ \A x \in SeqSet(active) :
                     Cardinality({ ik \in (1..Len(lists)) \X (1..maxItemsPerList) :
                                     /\ ik[2] <= Len(lists[ik[1]])
                                     /\ lists[ik[1]][ik[2]] = x }) = 1

\* A publish of an array with an expired indicator whose active ones fill
\* two partitions and leave a shorter third one.
C17_Witness ==
    /\ pub.mode = "multi"
    /\ Len(pub.input) > Len(pub.activeIndicators)
    /\ Len(pub.lists) >= 3
    /\ Len(pub.lists[Len(pub.lists)]) < maxItemsPerList

\* C18: in single-list mode, once a request of the publish has failed,
\* the clear or an append, the publish has returned with success = false:
\* no append follows a failed request, and so none follows a failed clear.
C18_SingleListFailureEndsPublish ==
    (pub.mode = "single" /\ ~pub.allOk) => (pub.pc = "done" /\ ~pub.success)

\* C19: in multi-list mode the first creation of a publish is requested
\* with no list of the reserved prefix left downstream, and when the
\* publish has returned the lists of the reserved prefix are no more than
\* its partitions.
C19_CreationFollowsFullCleanup ==
    /\ (pub.mode = "multi" /\ pub.pc = "create" /\ pub.i = 0) => PrefixedLists(gw) = <<>>
    /\ (pub.mode = "multi" /\ pub.pc = "done") => Len(PrefixedLists(gw)) <= Len(pub.lists)

\* The publish has been run twice in a row with the same indicator set
\* and every downstream call of both runs succeeded.
PublishedTwice ==
    /\ pub.pc = "done"
    /\ pub.prev.ran
    /\ pub.input = pub.prev.input
    /\ pub.allOk
    /\ pub.prev.allOk

\* C20 as stated: publishing twice in a row with the same indicator set,
\* every downstream call succeeding, leaves the downstream state of the
\* first run: as many lists, with the same names and the same items.
C20_RepublishLeavesSameState ==
    PublishedTwice => View(gw) = pub.prev.view

\* C20, amended: when no indicator of the set expires between the two
\* runs, the second run leaves as many lists with the same items as the
\* first; the names are the same as well in single-list mode, and in
\* multi-list mode when both runs fall on the same date.
C20_RepublishSameActiveSet ==
    (PublishedTwice /\ pub.activeIndicators = pub.prev.activeIndicators) =>
        /\ ItemsView(gw) = pub.prev.items
        /\ (pub.mode = "single" \/ DateStamp(pub.at) = DateStamp(pub.prev.at))
              => View(gw) = pub.prev.view

\* A multi-list publish was run twice on the same date, every call
\* succeeding: the lists of the first run were deleted and made again.
C20_Witness ==
    /\ PublishedTwice
    /\ pub.mode = "multi"
    /\ pub.activeIndicators = pub.prev.activeIndicators
    /\ DateStamp(pub.at) = DateStamp(pub.prev.at)
    /\ Len(pub.createdListIds) = 2
    /\ pub.createdListIds[1] > 2

\* ------------------------------------------------------------------------
\* Properties of the collector
\* ------------------------------------------------------------------------

\* The collector has returned from collectThreatIntelligence.
Collected == cy.pc = "collected"

\* The fetch of the i-th source failed (network error, timeout, non-2xx),
\* or its format is one no parser knows.
SourceFails(i) ==
    \/ ~cy.results[i].ok
    \/ cy.sources[i].format \notin {"plain", "csv", "json"}

\* The elements of xs whose index is not in drop, in order.
RECURSIVE Without(_, _)
Without(xs, drop) ==
    IF xs = <<>> THEN <<>>
    ELSE LET front == Without(SubSeq(xs, 1, Len(xs) - 1), drop)
         IN  IF Len(xs) \in drop THEN front ELSE Append(front, xs[Len(xs)])

FailedIndexes == { i \in 1..Len(cy.sources) : SourceFails(i) }

\* C21: a collection returns whatever fetch or parse failed; the sources
\* recorded in failed_sources are the ones that failed, no indicator names
\* one of them among its sources, and the indicators are those of the
\* same collection with the failed sources left out of the source list.
C21_FailedSourceIsolated ==
    Collected =>
        /\ SeqSet(cy.stats.failed_sources) = { cy.sources[i].name : i \in FailedIndexes }
        /\ \A k \in 1..Len(cy.collected) :
             SeqSet(cy.collected[k].val.sources)
                 \cap { cy.sources[i].name : i \in FailedIndexes } = {}
        /\ cy.collected =
             collectThreatIntelligence(Without(cy.sources, FailedIndexes),
                                       Without(cy.results, FailedIndexes), now).indicators

\* A collection in which one fetch failed, one source had a format without
\* parser, and the other sources gave indicators.
C21_Witness ==
    /\ Collected
    /\ \E i \in FailedIndexes : ~cy.results[i].ok /\ cy.sources[i].format = "plain"
    /\ \E i \in FailedIndexes : cy.results[i].ok /\ cy.results[i].text # <<>>
    /\ Len(cy.stats.failed_sources) >= 2
    /\ cy.collected # <<>>

\* The sources of the collector's list that reported a value in the
\* collection that has returned.
Reporters(value) ==
    { i \in 1..Len(cy.sources) :
        LET res == fetchAndParseSource(cy.sources[i], cy.results[i])
        IN  value \in SeqSet(res.ips) \cup SeqSet(res.domains) }

\* The sum of the weights of a set of sources of the collector's list.
RECURSIVE WeightSum(_)
WeightSum(idxs) ==
    IF idxs = {} THEN 0
    ELSE LET i == CHOOSE x \in idxs : TRUE
         IN  cy.sources[i].weight + WeightSum(idxs \ {i})

\* C22: after one collection an indicator reported by k sources names
\* exactly those k sources, each once, its score is the sum of their
\* weights capped at 100, and first_seen, last_seen and expires_at are
\* those of the pass: now, now and now + 24 h.
C22_MultiSourceIndicator ==
    Collected =>
        \A k \in 1..Len(cy.collected) :
            LET indicator == cy.collected[k].val
                reporters == Reporters(cy.collected[k].key)
            IN  /\ SeqSet(indicator.sources) = { cy.sources[i].name : i \in reporters }
                /\ Len(indicator.sources) = Cardinality(reporters)
                /\ indicator.score = Min(100, WeightSum(reporters)) * ScoreScale
                /\ indicator.first_seen = now
                /\ indicator.last_seen = now
                /\ indicator.expires_at = now + ExpiryWindow

\* C23: the sources a collection fetches are exactly the enabled ones of
\* the list the collector took its sources from, be it the parsed
\* configuration, the default list or the list given to updateSources: no
\* source with enabled = false is fetched.
C23_OnlyEnabledSourcesFetched ==
    Collected =>
        /\ Len(cy.results) = Len(cy.sources)
        /\ \A i \in 1..Len(cy.sources) : cy.sources[i].enabled
        /\ cy.sources = SelectSeq(cy.configured, LAMBDA source : source.enabled)

\* ------------------------------------------------------------------------
\* Properties of clearAllData
\* ------------------------------------------------------------------------

\* C24: when clearAllData has returned the backing store holds no key at
\* all, whatever was done before: no single entry, no index, no chunk, no
\* point entry, no scalar key, no list-id record.
C24_ClearAllLeavesNothing ==
    st_last.op = "clearAllData" => DOMAIN kv = {}

\* The step of a scheduled event, and the step in which a manual update is
\* taken up.
ScheduledStep == cy.pc = "idle" /\ cy' # cy /\ cy'.trigger = "scheduled"

ManualStep == cy.pc = "idle" /\ cy' # cy /\ cy'.trigger = "manual"

\* C25: a scheduled event finds an update needed exactly when no
\* last-update timestamp is stored or the clock is at least one update
\* interval past the stored timestamp; one unit before the interval has
\* passed it is not needed, at exactly the interval it is.
C25_UpdateNeededAtInterval ==
    [][ScheduledStep =>
          /\ cy'.pc = "collect" <=>
                (\/ K_LAST_UPDATE \notin DOMAIN kv
                 \/ now - kv[K_LAST_UPDATE] >= UpdateInterval)
          /\ (K_LAST_UPDATE \in DOMAIN kv /\ now - kv[K_LAST_UPDATE] = UpdateInterval - 1)
                => cy'.pc = "idle"
          /\ (K_LAST_UPDATE \in DOMAIN kv /\ now - kv[K_LAST_UPDATE] = UpdateInterval)
                => cy'.pc = "collect"]_vars

\* A scheduled event at exactly one interval after the last update has
\* started a cycle.
C25_Witness ==
    /\ cy.pc = "collect"
    /\ cy.trigger = "scheduled"
    /\ K_LAST_UPDATE \in DOMAIN kv
    /\ now - kv[K_LAST_UPDATE] = UpdateInterval

\* C26: a scheduled event starts a cycle only when isUpdateNeeded() is
\* true, and whatever its cycle did, the event returns without an error;
\* a manual update always starts a cycle, and when the cycle raised, the
\* response is an envelope with success = false that carries the error
\* the cycle raised.
C26_ScheduledSwallowsManualSurfaces ==
    [][/\ (ScheduledStep /\ cy'.pc = "collect") => isUpdateNeeded(kv, now)
       /\ ManualStep => cy'.pc = "collect"
       /\ (cy'.pc = "idle" /\ cy'.trigger = "scheduled") => cy'.response = ScheduledReturned
       /\ (cy'.pc = "idle" /\ cy'.trigger = "manual" /\ cy'.thrown # "none")
             => /\ cy'.response.kind = "json"
                /\ ~cy'.response.success
                /\ cy'.response.error = cy'.thrown
       /\ (cy'.pc = "idle" /\ cy'.trigger = "manual" /\ cy'.thrown = "none")
             => /\ cy'.response.success
                /\ cy'.response.data = <<kv'[K_UPDATE_STATS]>>]_vars

\* A scheduled event whose cycle raised has returned, and a manual update
\* is possible next.
C26_Witness ==
    /\ cy.pc = "idle"
    /\ cy.trigger = "scheduled"
    /\ cy.thrown # "none"
    /\ cy.response = ScheduledReturned

\* A manual update whose cycle raised has answered with the error.
C26_ManualWitness ==
    /\ cy.pc = "idle"
    /\ cy.trigger = "manual"
    /\ cy.thrown # "none"
    /\ ~cy.response.success

\* The first 16 bits of an address as a number, and membership of the
\* block base/prefix for a prefix of at most 16 bits.
AddressNumber(octets) == octets[1] * 256 + octets[2]

InBlock(octets, base, prefix) ==
    AddressNumber(octets) \div Pow2(16 - prefix) = AddressNumber(base) \div Pow2(16 - prefix)

\* The value is an IPv4 address of 10.0.0.0/8, 172.16.0.0/12,
\* 192.168.0.0/16, 127.0.0.0/8, 169.254.0.0/16 or of 224.0.0.0 and above.
InFilteredRange(value) ==
    /\ value \in DOMAIN IPv4Octets
    /\ LET octets == IPv4Octets[value]
       IN  \/ InBlock(octets, <<10, 0, 0, 0>>, 8)
           \/ InBlock(octets, <<172, 16, 0, 0>>, 12)
           \/ InBlock(octets, <<192, 168, 0, 0>>, 16)
           \/ InBlock(octets, <<127, 0, 0, 0>>, 8)
           \/ InBlock(octets, <<169, 254, 0, 0>>, 16)
           \/ AddressNumber(octets) >= AddressNumber(<<224, 0, 0, 0>>)

Extracted == cy.pc = "extracted"

Occurs(text, value) == \E i \in 1..Len(text) : text[i] = value

\* C27: whatever the text and the extract flags of a plain source, no
\* extracted indicator has a value in the filtered ranges, and 8.8.8.8 and
\* 1.1.1.1 are extracted when they occur and extract_ips is set.
C27_FilteredRangesNeverExtracted ==
    Extracted =>
        /\ \A value \in MapKeys(cy.collected) : ~InFilteredRange(value)
        /\ \A value \in {"8.8.8.8", "1.1.1.1"} :
              (cy.sources[1].extract_ips /\ Occurs(cy.results[1].text, value))
                  => value \in MapKeys(cy.collected)

\* The same with extract_domains not set.
C27_FilteredWithoutDomains ==
    (Extracted /\ ~cy.sources[1].extract_domains) =>
        /\ \A value \in MapKeys(cy.collected) : ~InFilteredRange(value)
        /\ \A value \in {"8.8.8.8", "1.1.1.1"} :
              (cy.sources[1].extract_ips /\ Occurs(cy.results[1].text, value))
                  => value \in MapKeys(cy.collected)

\* C28: every extracted indicator has type ip exactly when its value is a
\* dotted-quad IPv4 address, so no indicator of type domain has an IPv4
\* address as value.
C28_TypeDeterminedByValue ==
    Extracted =>
        \A i \in 1..Len(cy.collected) :
            cy.collected[i].val.type = "ip" <=> cy.collected[i].key \in DOMAIN IPv4Octets

\* The other half of C28: an indicator present before a merge has the same
\* type after it.
C28_MergeKeepsType ==
    cy.pc = "merged" =>
        \A key \in MapKeys(cy.existing) :
            MapGet(cy.merged, key).type = MapGet(cy.existing, key).type

\* C29: once a configuration update has stored the array S, a collection
\* by a FeedManager constructed afterwards fetches exactly the enabled
\* sources of S.
C29_LaterCyclesUseUpdatedSources ==
    (Collected /\ K_SOURCES_CONFIG \in DOMAIN kv) =>
        /\ cy.sources = SelectSeq(kv[K_SOURCES_CONFIG], LAMBDA source : source.enabled)
        /\ Len(cy.results) = Len(cy.sources)

\* The values load() returns from a store.
Loaded(store) == MapKeys(getAllIndicators(store).map)

\* The step in which a cycle completes its persist step.
PersistCompletes == cy.pc = "merge" /\ cy'.pc = "publish"

\* The stored indicator of a value has expired and the running cycle did
\* not collect the value.
ExpiredUnreported(value) ==
    /\ value \in Loaded(kv)
    /\ MapGet(getAllIndicators(kv).map, value).expires_at <= now
    /\ value \notin MapKeys(cy.collected)

\* C30: when a cycle completes its persist step, load() no longer returns
\* a stored indicator that has expired and that the cycle did not collect,
\* and it returns every indicator the cycle collected; no other step
\* removes a value from what load() returns.
C30_ExpiredDroppedResightedKept ==
    [][/\ PersistCompletes =>
             /\ \A value \in Loaded(kv) : ExpiredUnreported(value) => value \notin Loaded(kv')
             /\ MapKeys(cy.collected) \subseteq Loaded(kv')
       /\ ~(Loaded(kv) \subseteq Loaded(kv')) => PersistCompletes]_vars

\* A cycle that started with an expired indicator in the store and
\* collected nothing has completed its persist step, and load() is empty.
C30_Witness ==
    /\ cy.pc = "publish"
    /\ cy.expiredCount > 0
    /\ cy.collected = <<>>
    /\ Loaded(kv) = {}

\* The names of a list of source names, as a set.
NameSet(names) == { names[i] : i \in 1..Len(names) }

\* C40: after a collection every fetched source is in exactly one of
\* successful_sources and failed_sources: the two lists are disjoint, name
\* fetched sources only and their sizes sum to total_sources.
C40_EverySourceSuccessfulOrFailed ==
    Collected =>
        /\ NameSet(cy.stats.successful_sources) \cap NameSet(cy.stats.failed_sources) = {}
        /\ NameSet(cy.stats.successful_sources) \cup NameSet(cy.stats.failed_sources)
              = { cy.sources[i].name : i \in 1..Len(cy.sources) }
        /\ Len(cy.stats.successful_sources) + Len(cy.stats.failed_sources)
              = cy.stats.total_sources

\* The part of C40 that holds: the lists are disjoint, without repeats,
\* and name fetched sources only.
C40_ListsDisjoint ==
    Collected =>
        /\ NameSet(cy.stats.successful_sources) \cap NameSet(cy.stats.failed_sources) = {}
        /\ NameSet(cy.stats.successful_sources) \cup NameSet(cy.stats.failed_sources)
              \subseteq { cy.sources[i].name : i \in 1..Len(cy.sources) }
        /\ Len(cy.stats.successful_sources) + Len(cy.stats.failed_sources)
              <= cy.stats.total_sources

\* The downstream lists named with the configured feed name.
FeedLists == { id \in DOMAIN gw : gw[id].name = FEED_NAME }

\* C39: whatever the list-all request of initialize gives, and however
\* often initialize is called, at most one downstream list has the
\* configured feed name.
C39_AtMostOneFeedList == Cardinality(FeedLists) <= 1

\* C36: whatever the responses and network failures, a call of makeRequest
\* issues at most maxRetries (3) fetches and makes at most maxRetries - 1
\* (2) waits, and a call that has started ends: it returns or raises.
C36_RequestTerminates ==
    /\ [](Len(FetchLog) <= maxRetries /\ Len(WaitLog) <= maxRetries - 1)
    /\ (rq_pc \in {"fetch", "wait"}) ~> (rq_pc \in {"returned", "thrown"})

\* A call that raised after three fetches of different kinds (a network
\* failure, a 500 and a 429) and two waits.
C36_Witness ==
    /\ rq_pc = "thrown"
    /\ Len(FetchLog) = 3
    /\ Len(WaitLog) = 2
    /\ FetchLog[1].status = 0
    /\ FetchLog[2].status = 500
    /\ FetchLog[3].status = 429

MetadataNotFound == FeedUpdateResult(FALSE, 0, 0, 0, <<"Feed metadata not found">>)

\* The step in which a cycle aborts because no feed metadata is stored.
MetadataAbort ==
    /\ ~KVHas(kv, K_FEED_METADATA)
    /\ cy.pc = "publish"
    /\ cy'.pc = "idle"
    /\ cy'.raised = "Feed metadata not found"

\* A step of a cycle that runs without feed metadata and ends for that
\* reason, the step of the abort included.
AbortingCycleStep ==
    /\ ~KVHas(kv, K_FEED_METADATA)
    /\ \/ cy.pc = "idle" /\ cy'.pc = "collect"
       \/ cy.pc \in {"collect", "merge", "publish"}
    /\ cy' # cy
    /\ cy'.pc = "idle" => MetadataAbort

\* The step writes nothing, or the failed result and nothing else.
WritesFailedResultOnly ==
    \/ kv' = kv
    \/ kv' = KVPut(kv, K_UPDATE_STATS, MetadataNotFound)

\* C37 as claimed: no step of a cycle that aborts for missing feed metadata
\* changes the stored indicator set or the downstream lists, and the abort
\* writes nothing but the failed result.
C37_MetadataAbortLeavesStoreAndLists ==
    [][AbortingCycleStep =>
          /\ getAllIndicators(kv').map = getAllIndicators(kv).map
          /\ gw' = gw
          /\ MetadataAbort => WritesFailedResultOnly]_vars

\* C37 amended: no step of such a cycle changes the downstream lists; the
\* stored indicator set changes in the persist step only, which has run
\* before the metadata is read and leaves the merge of the active stored
\* indicators with the collected ones; the abort writes nothing but the
\* failed result.
C37_MetadataAbortLeavesLists ==
    [][AbortingCycleStep =>
          /\ gw' = gw /\ gw_next' = gw_next /\ pub' = pub
          /\ getAllIndicators(kv').map # getAllIndicators(kv).map => PersistCompletes
          /\ PersistCompletes =>
                getAllIndicators(kv').map
                    = mergeIndicators(SelectSeq(getAllIndicators(kv).map,
                                                LAMBDA e : e.val.expires_at > now),
                                      cy.collected)
          /\ MetadataAbort => WritesFailedResultOnly]_vars

\* A cycle has aborted for missing metadata after it stored indicators: the
\* failed result is stored, the store holds indicators, no list exists.
C37_Witness ==
    /\ cy.pc = "idle"
    /\ cy.raised = "Feed metadata not found"
    /\ ~KVHas(kv, K_FEED_METADATA)
    /\ kv[K_UPDATE_STATS] = MetadataNotFound
    /\ Loaded(kv) # {}
    /\ gw = <<>>


\* ------------------------------------------------------------------------
\* The publisher with the sending of a request as a step of its own
\* ------------------------------------------------------------------------

\* The statements of the publisher that send a downstream request.
RequestPcs == {"clear", "append", "cleanup", "delete", "create", "populate"}

\* A batch loop that sends the requests of all its remaining batches at
\* once (Promise.all over the batches).
RequestsSent_WholeLoop(p) ==
    IF p.pc = "append" THEN NumBatches(p.activeIndicators) - p.batchIndex
    ELSE IF p.pc = "populate" THEN NumBatches(p.lists[p.i + 1]) - p.batchIndex
    ELSE 1

\* await this.makeRequest(...): each statement sends one request and is
\* left only when that request has settled.
RequestsSent(p) == 1

\* The statement the publisher is at sends its request; the statement is
\* reached only after the awaited request before it has settled.
makeRequestSent ==
    /\ pub.pc \in RequestPcs
    /\ pub.inflight = 0
    /\ pub' = [pub EXCEPT !.inflight = @ + RequestsSent(pub)]
    /\ UNCHANGED <<gw, gw_next>>

NextRequests ==
    \/ ~KVHas(kv, K_FEED_METADATA) /\ initialize /\ UNCHANGED <<rqVars, now, st_last, pub, cy>>
    \/ /\ KVHas(kv, K_FEED_METADATA)
       /\ \E indicators \in PublishSamples :
             updateGatewayListSnapshot(kv[K_FEED_METADATA].feed_id, indicators)
       /\ UNCHANGED <<rqVars, stVars, cy>>
    \/ makeRequestSent /\ UNCHANGED <<rqVars, stVars, cy>>
    \/ pub.inflight > 0 /\ clearGatewayList /\ UNCHANGED <<rqVars, stVars, cy>>
    \/ pub.inflight > 0 /\ appendBatchSingle /\ UNCHANGED <<rqVars, stVars, cy>>
    \/ pub.inflight > 0 /\ cleanupListAll /\ UNCHANGED <<rqVars, stVars, cy>>
    \/ pub.inflight > 0 /\ cleanupDelete /\ UNCHANGED <<rqVars, stVars, cy>>
    \/ pub.inflight > 0 /\ createList /\ UNCHANGED <<rqVars, stVars, cy>>
    \/ pub.inflight > 0 /\ appendBatchMulti /\ UNCHANGED <<rqVars, stVars, cy>>
    \/ storeGatewayListIds /\ UNCHANGED <<rqVars, now, st_last, cy>>

SpecRequests == Init /\ [][NextRequests]_vars

C32_DelayBetweenCreations ==
    pub.pc = "create" /\ pub.i >= 1 => pub.delay > 0


\* ------------------------------------------------------------------------
\* collectThreatIntelligence with each fetch settling as a step of its own
\* (threatCollector.ts:99-130)
\* ------------------------------------------------------------------------

\* What the fetch of one source may give.
FetchOutcomes(source) ==
    {FetchFailed} \cup { Fetched(text) : text \in SubSeqs(SourceFeed(source.name)) }

\* A collector that adds the result of each source as its fetch settles.
MergeOrder_AsSettled(c) == c.settled

\* for (let i = 0; i < results.length; i++) { const source = this.sources[i]; ... }
MergeOrder(c) == [i \in 1..Len(c.sources) |-> i]

\* this.sources.map(source => this.fetchAndParseSource(source).catch(...)):
\* every fetch is started; settled is the order in which they settle.
collectFanOut ==
    /\ cy.pc = "constructed"
    /\ cy' = [cy EXCEPT !.pc = "fetching",
                        !.results = [i \in 1..Len(cy.sources) |-> FetchFailed],
                        !.settled = <<>>,
                        !.stats = [total_sources |-> Len(cy.sources),
                                   successful_sources |-> <<>>,
                                   failed_sources |-> <<>>]]
    /\ UNCHANGED <<stVars, pubVars>>

\* The promise of sources[i] settles; when fetchAndParseSource raised, its
\* catch pushes the name to failed_sources and gives an empty result.
fetchSettles(i) ==
    /\ cy.pc = "fetching"
    /\ i \notin { cy.settled[j] : j \in 1..Len(cy.settled) }
    /\ \E fetched \in FetchOutcomes(cy.sources[i]) :
         cy' = [cy EXCEPT !.results[i] = fetched,
                          !.settled = Append(@, i),
                          !.stats.failed_sources =
                              IF fetchAndParseRaises(cy.sources[i], fetched)
                              THEN Append(@, cy.sources[i].name) ELSE @]
    /\ UNCHANGED <<stVars, pubVars>>

\* await Promise.all(fetchPromises) resumes once every promise has
\* settled, and the loop over the results adds the indicators.
collectProcessResults ==
    /\ cy.pc = "fetching"
    /\ Len(cy.settled) = Len(cy.sources)
    /\ LET order == MergeOrder(cy)
           result == collectThreatIntelligence([k \in 1..Len(order) |-> cy.sources[order[k]]],
                                               [k \in 1..Len(order) |-> cy.results[order[k]]],
                                               now)
       IN  cy' = [cy EXCEPT !.pc = "collected",
                            !.collected = result.indicators,
                            !.stats.successful_sources = result.stats.successful_sources]
    /\ UNCHANGED <<stVars, pubVars>>

NextFanOut ==
    \/ collectorNew /\ UNCHANGED rqVars
    \/ collectFanOut /\ UNCHANGED rqVars
    \/ \E i \in 1..Len(cy.sources) : fetchSettles(i) /\ UNCHANGED rqVars
    \/ collectProcessResults /\ UNCHANGED rqVars
    \/ cy.pc = "idle" /\ Tick /\ UNCHANGED <<rqVars, pubVars, cy>>

SpecFanOut == Init /\ [][NextFanOut]_vars

\* An indicator set without its timestamps: per value its type, its score
\* and its sources in their order.
IndicatorView(indicators) ==
    { [value |-> indicators[k].key, type |-> indicators[k].val.type,
       score |-> indicators[k].val.score, sources |-> indicators[k].val.sources] :
      k \in 1..Len(indicators) }

C34_IndexFoundWithItsChunks ==
    KVHas(kv, K_INDICATORS_INDEX) =>
        /\ \A i \in 0..(kv[K_INDICATORS_INDEX].total_chunks - 1) :
               KVHas(kv, K_INDICATORS_CHUNKS(i))
        /\ Len(JoinChunks(kv, 0, kv[K_INDICATORS_INDEX].total_chunks)) =
               kv[K_INDICATORS_INDEX].total_size

\* A persist raises, the operation before it being a persist that
\* succeeded.
FailedPersistAfterSuccessful ==
    /\ LastPersistOk
    /\ st_last'.op = "storeIndicators"
    /\ ~st_last'.ok

\* C35: when a persist raises because the backing store rejected one of
\* its writes or deletes, a following load returns the set of the last
\* successful persist, not an empty, partial or older set.
C35_FailedPersistKeepsLastSet ==
    [][FailedPersistAfterSuccessful =>
          /\ ~getAllIndicators(kv').raised
          /\ MapAsSet(getAllIndicators(kv').map) = MapAsSet(st_last.arg)]_vars


\* ------------------------------------------------------------------------
\* Two cycles whose publishes run interleaved (index.ts:11-95: fetch and
\* scheduled each make a FeedManager of their own and run a cycle, and
\* nothing keeps a second cycle from starting while one is suspended)
\* ------------------------------------------------------------------------

\* The arrays with more active indicators than one list holds.
MultiListSamples ==
    { indicators \in PublishSamples :
        ~UseSingleList(SelectSeq(indicators, LAMBDA ind : ind.expires_at > now)) }

\* A manual update and a scheduled update have both reached the publish
\* of the same set: one runs, the other is suspended.
publishTwice ==
    /\ KVHas(kv, K_FEED_METADATA)
    /\ pub.pc = "idle"
    /\ \E indicators \in MultiListSamples :
         LET started == StartedPublish(kv[K_FEED_METADATA].feed_id, indicators, now)
         IN  pub' = [started EXCEPT !.other = started]
    /\ UNCHANGED <<gw, gw_next>>

\* The running publish is suspended at an await and the other one
\* resumes.
resumeOther ==
    /\ pub.other # <<>>
    /\ pub.other.pc # "done"
    /\ pub' = [pub.other EXCEPT !.other = [pub EXCEPT !.other = <<>>]]
    /\ UNCHANGED <<gw, gw_next>>

NextTwoCycles ==
    \/ ~KVHas(kv, K_FEED_METADATA) /\ initialize /\ UNCHANGED <<rqVars, now, st_last, pub, cy>>
    \/ publishTwice /\ UNCHANGED <<rqVars, stVars, cy>>
    \/ resumeOther /\ UNCHANGED <<rqVars, stVars, cy>>
    \/ cleanupListAll /\ UNCHANGED <<rqVars, stVars, cy>>
    \/ cleanupDelete /\ UNCHANGED <<rqVars, stVars, cy>>
    \/ createList /\ UNCHANGED <<rqVars, stVars, cy>>
    \/ appendBatchMulti /\ UNCHANGED <<rqVars, stVars, cy>>
    \/ storeGatewayListIds /\ UNCHANGED <<rqVars, now, st_last, cy>>

SpecTwoCycles == Init /\ [][NextTwoCycles]_vars

\* Two lists of the reserved prefix have the same name.
PartitionTwice ==
    \E a, b \in DOMAIN gw :
        a # b /\ StartsWithPrefix(gw[a].name) /\ gw[a].name = gw[b].name

\* The lists a publish has created so far.
CreatedBy(p) ==
    { p.createdListIds[j] : j \in 1..Len(p.createdListIds) }
        \cup (IF p.pc = "populate" THEN {p.gatewayList} ELSE {})

\* The lists of the reserved prefix that hold an indicator.
Holders(ind) ==
    { id \in DOMAIN gw : StartsWithPrefix(gw[id].name) /\ Item(ind) \in gw[id].items }

\* C38: when two cycles run their multi-list publishes of the same set
\* interleaved and no request fails, no partition exists twice, the
\* cleanup of neither cycle deletes a list the other cycle has created,
\* and once both have finished every active indicator is held by exactly
\* one list of the reserved prefix.
C38_InterleavedPublishesKeepOneCopy ==
    (pub.other # <<>> /\ pub.allOk /\ pub.other.allOk) =>
        /\ ~PartitionTwice
        /\ pub.pc = "delete" => pub.oldLists[pub.k] \notin CreatedBy(pub.other)
        /\ (pub.pc = "done" /\ pub.other.pc = "done") =>
              \A j \in 1..Len(pub.activeIndicators) :
                  Cardinality(Holders(pub.activeIndicators[j])) = 1

====
